---- MODULE Spec2Model ----
(***************************************************************************)
(* A model of the mini-redis core: the key/value store with its TTL        *)
(* timers (MiniRedisStore), the RESP parser behind TCPClient._onData, the  *)
(* output multiplexer (IOMultiplexer) and the pub/sub broker (PubSub)      *)
(* driven by TCPServer.handleCommand.                                      *)
(*                                                                         *)
(* Each object has its own specification over the shared variables:        *)
(*   SpecStore   the store's methods, the clock and the TTL timers         *)
(*   SpecParser  the 'data' events of one connection                       *)
(*   SpecMux     the multiplexer, called at any priority                   *)
(*   SpecServer  connections, their pub/sub commands, the broker and the   *)
(*               multiplexer under them                                    *)
(*   SpecBroker  the broker's publish called with options                  *)
(***************************************************************************)
EXTENDS Integers, Sequences, FiniteSets, TLC

(***************************************************************************)
(* Bounds of the model                                                     *)
(***************************************************************************)
\* the clock stops advancing at MaxNow milliseconds
MaxNow == 1500
\* at most MaxTimers setTimeout handles are pending at once
MaxTimers == 3
\* DEL / EXISTS take at most MaxKeyList keys in one call
MaxKeyList == 2
\* a client sends at most MaxCommands commands of at most MaxArgs arguments
MaxCommands == 2
MaxArgs == 2
\* a 'data' event carries at most MaxChunk bytes
MaxChunk == 20
\* options.maxQueueSize of the multiplexer (1000 by default), scaled down
maxQueueSize == 2
\* callers make at most MaxEnqueues enqueue() calls per socket
MaxEnqueues == 4
\* no flush starts once MaxWire writes were made on a socket
MaxWire == 3
\* the connections send at most MaxCmds commands in all
MaxCmds == 3
\* a socket returns false from write() at most MaxRefusals times
MaxRefusals == 1
\* under the broker's callers the connections send at most MaxBrokerCmds commands
MaxBrokerCmds == 2
\* a 'data' event of the server holds at most MaxPipeline commands
MaxPipeline == 2
\* at most MaxPublishes publish() calls find a subscriber
MaxPublishes == 2
\* the key/value commands a connection sends
MaxKvCmds == 3
\* the COUNT of a SCAN iteration
MaxScanCount == 3
\* the commands a connection sends after a burst of publishes
MaxBurstCmds == 3
\* the writes of a socket that raise
MaxThrows == 1
\* the payloads enqueued for a socket, large ones among them
MaxPayloads == 2

\* one clock step, in milliseconds
TickMs == 500

Keys == {"k1", "k2"}
Values == {"v1", "v2"}
\* the seconds argument of expire()
SecondsInputs == {-1, 0, 1}
\* JavaScript null
Null == "null"
\* no entry in the expirations map
NoExpiration == [handle |-> 0, expireAt |-> 0]
Handles == 1..(MaxTimers + 1)

VARIABLES
  store,        \* MiniRedisStore.store: the Map, as its entries in insertion order
  expirations,  \* MiniRedisStore.expirations: key -> {handle, expireAt}
  timers,       \* the runtime's pending setTimeout timers of the store
  now,          \* Date.now()
  ret,          \* the value returned by the last store method
  written,      \* history: the value of the last SET of a key that no later
                \* SET, DEL or expiration armed after it has ended
  armedSince,   \* history: the timer handles armed for a key since its last SET
  cancelledBySet,  \* history: the last SET of the key cancelled a pending timer
  sent,         \* the commands a client sends on one connection
  input,        \* their bytes
  fed,          \* the number of bytes that have arrived in 'data' events
  pbuf,         \* RESPParser.buffer
  dispatched,   \* the argument arrays handed to handleCommand so far
  conn,         \* each socket: "none", "open", "errored" (destroyed, its
                \* 'close' event still to come) or "closed"
  registered,   \* IOMultiplexer.queues: the sockets that have a slot
  queues,       \* IOMultiplexer.queues: the three queues of each slot
  batchTimers,  \* IOMultiplexer.batchTimers: the sockets with a pending batch timer
  needDrain,    \* the socket returned false from write() and owes a 'drain' event
  wire,         \* history: what socket.write() was called with, in order
  enqCount,     \* history: the number of enqueue() calls made for a socket
  refusals,     \* history: the number of times write() returned false on a socket
  flushing,     \* IOMultiplexer.flushing: the sockets marked as being flushed
  socketMetrics,     \* IOMultiplexer.socketMetrics: the errors count of each slot
  connectionHealth,  \* IOMultiplexer.connectionHealth: consecutiveErrors of each slot
  throws,       \* history: the number of times write() raised on a socket
  health,       \* what the health sweep reads and writes of each slot:
                \* socketMetrics.lastActivity and connectionHealth.status,
                \* .lastHealthCheck and .queueFullCount
  subscribed,   \* TCPClient.subscribed of each connection, in insertion order
  channels,     \* PubSub.channels: channel -> the set of subscribed clients
  subscriberGroups,        \* PubSub.subscriberGroups: channel -> group -> clients
  subscriptionPriorities,  \* TCPClient.subscriptionPriorities of each connection
  messageBuffer,  \* PubSub.messageBuffer: channel -> the buffered messages
  running,      \* the server process has not exited
  cmdCount,     \* history: the number of commands dispatched for a connection
  pubLog,       \* history: the publish() calls that found a subscriber
  lastCmd,      \* history: the arguments of the last key/value command dispatched
  pendingChunks,  \* the _broadcastInChunks calls that wait in setImmediate
  lastBroadcast   \* history: the length of the last broadcast() call's socket
                  \* array and the counts it returned

storeVars == <<store, expirations, timers, now, ret, written, armedSince, cancelledBySet>>
parserVars == <<sent, input, fed, pbuf, dispatched>>
muxVars == <<conn, registered, queues, batchTimers, needDrain, wire, enqCount, refusals,
             flushing, socketMetrics, connectionHealth, throws, health>>
brokerVars == <<subscribed, channels, subscriberGroups, subscriptionPriorities,
                messageBuffer, cmdCount, pubLog>>
broadcastVars == <<pendingChunks, lastBroadcast>>
vars == <<storeVars, parserVars, muxVars, brokerVars, running, lastCmd, broadcastVars>>
\* what the store's methods and timers leave alone
notStoreVars == <<parserVars, muxVars, brokerVars, running, lastCmd, broadcastVars>>
\* what the parser of a connection leaves alone
notParserVars == <<storeVars, muxVars, brokerVars, running, lastCmd, broadcastVars>>
\* what the multiplexer leaves alone
notMuxVars == <<storeVars, parserVars, brokerVars, running, lastCmd, broadcastVars>>
\* what the connections and the broker leave alone
notServerVars == <<storeVars, parserVars, lastCmd, broadcastVars>>

(***************************************************************************)
(* Helpers on sequences                                                    *)
(***************************************************************************)
Range(s) == {s[i] : i \in 1..Len(s)}

RECURSIVE SeqFilterKey(_, _)
\* the entries of a Map without the entry of key k
SeqFilterKey(m, k) ==
  IF m = <<>> THEN <<>>
  ELSE IF Head(m).key = k THEN SeqFilterKey(Tail(m), k)
       ELSE <<Head(m)>> \o SeqFilterKey(Tail(m), k)

\* the value of x handed to F: the steps of a method run one after the other
Then(x, F(_)) == CHOOSE r \in {F(v) : v \in {x}} : TRUE

Max(a, b) == IF a >= b THEN a ELSE b
Min(a, b) == IF a <= b THEN a ELSE b

\* a rounding down in place of Math.ceil
FloorSeconds(ms) == ms \div 1000

\* Math.ceil(ms / 1000) for ms >= 0
CeilSeconds(ms) == (ms + 999) \div 1000

(***************************************************************************)
(* The JavaScript Map holding the store                                    *)
(***************************************************************************)
MapHas(m, k) == \E i \in 1..Len(m) : m[i].key = k

MapGet(m, k) == (CHOOSE e \in Range(m) : e.key = k).val

\* a Map.set that does not replace the value of an existing key
MapSetKeepsOld(m, k, v) ==
  IF MapHas(m, k) THEN m ELSE Append(m, [key |-> k, val |-> v])

\* Map.set keeps the position of an existing key and appends a new one
MapSet(m, k, v) ==
  IF MapHas(m, k)
  THEN [i \in 1..Len(m) |-> IF m[i].key = k THEN [key |-> k, val |-> v] ELSE m[i]]
  ELSE Append(m, [key |-> k, val |-> v])

\* a Map.delete that removes nothing
MapDeleteNothing(m, k) == m

MapDelete(m, k) == SeqFilterKey(m, k)

MapKeys(m) == [i \in 1..Len(m) |-> m[i].key]

(***************************************************************************)
(* MiniRedisStore                                                          *)
(***************************************************************************)
HasExpiration(e, k) == e[k] # NoExpiration

\* a _clearExpiration that forgets the clearTimeout call
ClearTimersForgotten(t, e, k) == t

\* _clearExpiration: clearTimeout on the recorded handle, drop the entry
ClearTimers(t, e, k) ==
  IF HasExpiration(e, k) THEN {x \in t : x.handle # e[k].handle} ELSE t

\* a _clearExpiration that leaves the entry of the key in the map
ClearExpirationsKeepsEntry(e, k) == e

\* _clearExpiration: expirations.delete(key)
ClearExpirations(e, k) ==
  IF HasExpiration(e, k) THEN [e EXCEPT ![k] = NoExpiration] ELSE e

\* history: _clearExpiration(k) finds a pending timer recorded for k
PendingFor(t, e, k) ==
  HasExpiration(e, k) /\ \E x \in t : x.handle = e[k].handle

\* get
StoreGet(m, k) == IF MapHas(m, k) THEN MapGet(m, k) ELSE Null

\* ttl
StoreTtl(m, e, t, k) ==
  IF ~MapHas(m, k) THEN -2
  ELSE IF ~HasExpiration(e, k) THEN -1
  ELSE CeilSeconds(Max(0, e[k].expireAt - t))

\* the glob patterns the model passes to keys(), with the keys they match
Patterns == {"*", "k?", "k1"}
GlobMatch(p, k) ==
  CASE p = "*" -> TRUE
    [] p = "k?" -> k \in {"k1", "k2"}
    [] OTHER -> k = p

RECURSIVE SeqSelectMatch(_, _)
SeqSelectMatch(ks, p) ==
  IF ks = <<>> THEN <<>>
  ELSE IF GlobMatch(p, Head(ks)) THEN <<Head(ks)>> \o SeqSelectMatch(Tail(ks), p)
       ELSE SeqSelectMatch(Tail(ks), p)

\* keys
StoreKeys(m, p) == IF p = "*" THEN MapKeys(m) ELSE SeqSelectMatch(MapKeys(m), p)

\* a handle no pending timer and no expirations entry refers to
FreshHandle(t, e) ==
  CHOOSE h \in Handles :
    /\ \A x \in t : x.handle # h
    /\ \A k \in Keys : e[k].handle # h
    /\ \A g \in Handles : g < h =>
         \/ \E x \in t : x.handle = g
         \/ \E k \in Keys : e[k].handle = g

\* Number(seconds) * 1000, clamped at 0
ExpireMs(seconds) == Max(0, seconds * 1000)

KeyLists == UNION {[1..n -> Keys] : n \in 1..MaxKeyList}

RECURSIVE DelFold(_, _, _, _, _)
\* del: the loop over the key list; the result is the state after it and the count
DelFold(m, e, t, list, removed) ==
  IF list = <<>> THEN [store |-> m, expirations |-> e, timers |-> t, removed |-> removed]
  ELSE LET k == Head(list) IN
       DelFold(MapDelete(m, k), ClearExpirations(e, k), ClearTimers(t, e, k), Tail(list),
               IF MapHas(m, k) THEN removed + 1 ELSE removed)

\* kv.set, kv.get, kv.del, kv.expire and kv.ttl as a caller runs them
KvSet(k, v) ==
  /\ timers' = ClearTimers(timers, expirations, k)
  /\ expirations' = ClearExpirations(expirations, k)
  /\ store' = MapSet(store, k, v)
  /\ ret' = [op |-> "set", key |-> k, val |-> "OK"]
  /\ written' = [written EXCEPT ![k] = v]
  /\ armedSince' = [armedSince EXCEPT ![k] = {}]
  /\ cancelledBySet' = [cancelledBySet EXCEPT ![k] = PendingFor(timers, expirations, k)]
  /\ UNCHANGED now

KvGet(k) ==
  /\ ret' = [op |-> "get", key |-> k, val |-> StoreGet(store, k)]
  /\ UNCHANGED <<store, expirations, timers, now, written, armedSince, cancelledBySet>>

KvDel(list) ==
  LET r == DelFold(store, expirations, timers, list, 0) IN
  /\ store' = r.store
  /\ expirations' = r.expirations
  /\ timers' = r.timers
  /\ ret' = [op |-> "del", key |-> list[1], val |-> r.removed]
  /\ written' = [k \in Keys |-> IF k \in Range(list) THEN Null ELSE written[k]]
  /\ cancelledBySet' = [k \in Keys |-> IF k \in Range(list) THEN FALSE ELSE cancelledBySet[k]]
  /\ UNCHANGED <<now, armedSince>>

KvExpire(k, seconds) ==
  \/ /\ ~MapHas(store, k)
     /\ ret' = [op |-> "expire", key |-> k, val |-> 0]
     /\ UNCHANGED <<store, expirations, timers, now, written, armedSince, cancelledBySet>>
  \/ /\ MapHas(store, k)
     /\ Cardinality(timers) < MaxTimers
     /\ LET t1 == ClearTimers(timers, expirations, k)
            e1 == ClearExpirations(expirations, k)
            h == FreshHandle(t1, e1)
            ms == ExpireMs(seconds)
        IN /\ timers' = t1 \cup {[handle |-> h, key |-> k, due |-> now + ms]}
           /\ expirations' = [e1 EXCEPT ![k] = [handle |-> h, expireAt |-> now + ms]]
           /\ armedSince' = [armedSince EXCEPT ![k] = (@ \cap {x.handle : x \in t1}) \cup {h}]
     /\ ret' = [op |-> "expire", key |-> k, val |-> 1]
     /\ cancelledBySet' = [cancelledBySet EXCEPT ![k] = FALSE]
     /\ UNCHANGED <<store, now, written>>

KvTtl(k) ==
  /\ ret' = [op |-> "ttl", key |-> k, val |-> StoreTtl(store, expirations, now, k)]
  /\ UNCHANGED <<store, expirations, timers, now, written, armedSince, cancelledBySet>>

\* the store's methods called on their own
Set(k, v) == KvSet(k, v) /\ UNCHANGED notStoreVars
Get(k) == KvGet(k) /\ UNCHANGED notStoreVars
Del(list) == KvDel(list) /\ UNCHANGED notStoreVars
Expire(k, seconds) == KvExpire(k, seconds) /\ UNCHANGED notStoreVars
Ttl(k) == KvTtl(k) /\ UNCHANGED notStoreVars

\* the setTimeout callback of expire(), run by the runtime once it is due
TimerFire(x) ==
  /\ x \in timers
  /\ x.due <= now
  /\ timers' = timers \ {x}
  /\ store' = MapDelete(store, x.key)
  /\ expirations' = [expirations EXCEPT ![x.key] = NoExpiration]
  /\ written' = [written EXCEPT ![x.key] =
                   IF x.handle \in armedSince[x.key] THEN Null ELSE @]
  /\ armedSince' = [armedSince EXCEPT ![x.key] = @ \ {x.handle}]
  /\ ret' = [op |-> "timer", key |-> x.key, val |-> x.handle]
  /\ cancelledBySet' = [cancelledBySet EXCEPT ![x.key] = FALSE]
  /\ UNCHANGED <<now, notStoreVars>>

\* wall-clock time passes
Tick ==
  /\ now < MaxNow
  /\ now' = now + TickMs
  /\ UNCHANGED <<store, expirations, timers, ret, written, armedSince, cancelledBySet, notStoreVars>>

InitStore ==
  /\ store = <<>>
  /\ expirations = [k \in Keys |-> NoExpiration]
  /\ timers = {}
  /\ now = 0
  /\ ret = [op |-> "init", key |-> "k1", val |-> Null]
  /\ written = [k \in Keys |-> Null]
  /\ armedSince = [k \in Keys |-> {}]
  /\ cancelledBySet = [k \in Keys |-> FALSE]

\* a connection on which nothing is sent
InitIdleParser ==
  /\ sent = <<>>
  /\ input = <<>>
  /\ fed = 0
  /\ pbuf = <<>>
  /\ dispatched = <<>>

NextStore ==
  \/ \E k \in Keys, v \in Values : Set(k, v)
  \/ \E k \in Keys : Get(k)
  \/ \E list \in KeyLists : Del(list)
  \/ \E k \in Keys, s \in SecondsInputs : Expire(k, s)
  \/ \E k \in Keys : Ttl(k)
  \/ \E x \in timers : TimerFire(x)
  \/ Tick


(***************************************************************************)
(* RESP: the bytes of a stream are modelled one character at a time        *)
(***************************************************************************)
CR == "\r"
LF == "\n"
DigitChars == <<"0", "1", "2", "3", "4", "5", "6", "7", "8", "9">>
IsDigit(c) == \E i \in 1..10 : DigitChars[i] = c
DigitVal(c) == (CHOOSE i \in 1..10 : DigitChars[i] = c) - 1
IsSpace(c) == c \in {" ", "\t", CR, LF}

RECURSIVE Decimal(_)
\* the decimal digits of a number n >= 0, as in a template literal `${n}`
Decimal(n) ==
  IF n < 10 THEN <<DigitChars[n + 1]>>
  ELSE Decimal(n \div 10) \o <<DigitChars[(n % 10) + 1]>>

\* RESPFormatter.bulkString for a string
BulkString(str) == <<"$">> \o Decimal(Len(str)) \o <<CR, LF>> \o str \o <<CR, LF>>

RECURSIVE BulkStrings(_)
BulkStrings(items) ==
  IF items = <<>> THEN <<>> ELSE BulkString(Head(items)) \o BulkStrings(Tail(items))

\* RESPFormatter.array for an array of strings
ArrayOfStrings(items) == <<"*">> \o Decimal(Len(items)) \o <<CR, LF>> \o BulkStrings(items)

\* parsed values: JavaScript null, strings, arrays, integers, Error objects
NullV == [t |-> "null", v |-> <<>>]
StrV(chars) == [t |-> "str", v |-> chars]
ArrV(elems) == [t |-> "arr", v |-> elems]
IntV(n) == [t |-> "int", v |-> <<n>>]
ErrV(chars) == [t |-> "err", v |-> chars]
IsNullV(x) == x.t = "null"

\* String.indexOf("\r\n"), 1-based; 0 when there is none
IndexOfCRLF(buf) ==
  IF \E i \in 1..(Len(buf) - 1) : buf[i] = CR /\ buf[i + 1] = LF
  THEN CHOOSE i \in 1..(Len(buf) - 1) :
         /\ buf[i] = CR /\ buf[i + 1] = LF
         /\ \A j \in 1..(i - 1) : ~(buf[j] = CR /\ buf[j + 1] = LF)
  ELSE 0

\* String.indexOf("\n"), 1-based; 0 when there is none
IndexOfLF(buf) ==
  IF \E i \in 1..Len(buf) : buf[i] = LF
  THEN CHOOSE i \in 1..Len(buf) : buf[i] = LF /\ \A j \in 1..(i - 1) : buf[j] # LF
  ELSE 0

\* String.slice(from) with a 1-based first index
SliceFrom(buf, from) == SubSeq(buf, from, Len(buf))

RECURSIVE DigitsValue(_, _)
\* the value of the longest run of digits at the head of chars
DigitsValue(chars, acc) ==
  IF chars = <<>> \/ ~IsDigit(Head(chars)) THEN acc
  ELSE DigitsValue(Tail(chars), acc * 10 + DigitVal(Head(chars)))

RECURSIVE SkipSpaces(_)
SkipSpaces(chars) ==
  IF chars # <<>> /\ IsSpace(Head(chars)) THEN SkipSpaces(Tail(chars)) ELSE chars

\* parseInt(str, 10): nan is TRUE when no digit follows the optional sign
ParseInt(str) ==
  LET t == SkipSpaces(str)
      neg == t # <<>> /\ Head(t) = "-"
      d == IF t # <<>> /\ Head(t) \in {"-", "+"} THEN Tail(t) ELSE t
  IN IF d = <<>> \/ ~IsDigit(Head(d)) THEN [nan |-> TRUE, n |-> 0]
     ELSE [nan |-> FALSE, n |-> IF neg THEN 0 - DigitsValue(d, 0) ELSE DigitsValue(d, 0)]

RECURSIVE SplitSpaces(_, _)
\* str.trim().split(/\s+/) without the empty parts
SplitSpaces(chars, cur) ==
  IF chars = <<>> THEN (IF cur = <<>> THEN <<>> ELSE <<cur>>)
  ELSE IF IsSpace(Head(chars))
       THEN (IF cur = <<>> THEN <<>> ELSE <<cur>>) \o SplitSpaces(Tail(chars), <<>>)
       ELSE SplitSpaces(Tail(chars), Append(cur, Head(chars)))

RECURSIVE Flat(_)
\* Array.prototype.flat(): the elements of nested arrays, one level up
Flat(elems) ==
  IF elems = <<>> THEN <<>>
  ELSE (IF Head(elems).t = "arr" THEN Head(elems).v ELSE <<Head(elems)>>) \o Flat(Tail(elems))

StrVs(parts) == [i \in 1..Len(parts) |-> StrV(parts[i])]

\* _parseBulkString
ParseBulkString(buf) ==
  LET crlfIndex == IndexOfCRLF(buf) IN
  IF crlfIndex = 0 THEN [res |-> NullV, buf |-> buf]
  ELSE LET length == ParseInt(SubSeq(buf, 2, crlfIndex - 1))
           dataStart == crlfIndex + 2
           dataEnd == dataStart + length.n
       IN IF length.nan THEN [res |-> StrV(<<>>), buf |-> SliceFrom(buf, crlfIndex + 2)]
          ELSE IF length.n = -1 THEN [res |-> NullV, buf |-> SliceFrom(buf, crlfIndex + 2)]
          ELSE IF Len(buf) < dataEnd - 1 + 2 THEN [res |-> NullV, buf |-> buf]
          ELSE [res |-> StrV(SubSeq(buf, dataStart, dataEnd - 1)),
                buf |-> SliceFrom(buf, dataEnd + 2)]

\* _parseSimpleString, _parseError, _parseInteger: one line up to \r\n
ParseLine(buf, kind) ==
  LET crlfIndex == IndexOfCRLF(buf) IN
  IF crlfIndex = 0 THEN [res |-> NullV, buf |-> buf]
  ELSE LET data == SubSeq(buf, 2, crlfIndex - 1)
           rest == SliceFrom(buf, crlfIndex + 2)
       IN CASE kind = "+" -> [res |-> StrV(data), buf |-> rest]
            [] kind = "-" -> [res |-> ErrV(data), buf |-> rest]
            [] OTHER -> [res |-> IntV(ParseInt(data).n), buf |-> rest]

\* _parseInlineCommand
ParseInlineCommand(buf) ==
  LET crlfIndex == IndexOfCRLF(buf)
      lfIndex == IndexOfLF(buf)
  IN IF crlfIndex = 0
     THEN IF lfIndex = 0 THEN [res |-> NullV, buf |-> buf]
          ELSE [res |-> ArrV(StrVs(SplitSpaces(SubSeq(buf, 1, lfIndex - 1), <<>>))),
                buf |-> SliceFrom(buf, lfIndex + 1)]
     ELSE [res |-> ArrV(StrVs(SplitSpaces(SubSeq(buf, 1, crlfIndex - 1), <<>>))),
           buf |-> SliceFrom(buf, crlfIndex + 2)]

RECURSIVE ParseNext(_)
RECURSIVE ParseElements(_, _, _)

\* _parseArray: the header is sliced off the buffer before the elements are
\* parsed, and every parsed element is sliced off as it is parsed
ParseArray(buf) ==
  LET crlfIndex == IndexOfCRLF(buf) IN
  IF crlfIndex = 0 THEN [res |-> NullV, buf |-> buf]
  ELSE LET length == ParseInt(SubSeq(buf, 2, crlfIndex - 1))
           rest == SliceFrom(buf, crlfIndex + 2)
       IN IF length.nan THEN [res |-> ArrV(<<>>), buf |-> rest]
          ELSE IF length.n = -1 THEN [res |-> NullV, buf |-> rest]
          ELSE ParseElements(rest, length.n, <<>>)

\* the element loop of _parseArray: null as soon as an element is incomplete
ParseElements(buf, remaining, elements) ==
  IF remaining <= 0 THEN [res |-> ArrV(Flat(elements)), buf |-> buf]
  ELSE LET e == ParseNext(buf) IN
       IF IsNullV(e.res) THEN [res |-> NullV, buf |-> e.buf]
       ELSE ParseElements(e.buf, remaining - 1, Append(elements, e.res))

\* _parseNext
ParseNext(buf) ==
  IF buf = <<>> THEN [res |-> NullV, buf |-> buf]
  ELSE CASE Head(buf) = "*" -> ParseArray(buf)
         [] Head(buf) = "$" -> ParseBulkString(buf)
         [] Head(buf) \in {"+", "-", ":"} -> ParseLine(buf, Head(buf))
         [] OTHER -> ParseInlineCommand(buf)

RECURSIVE ParseLoop(_, _)
\* parse: values are taken off the buffer until one is incomplete
ParseLoop(buf, commands) ==
  IF buf = <<>> THEN [commands |-> commands, buf |-> buf]
  ELSE LET r == ParseNext(buf) IN
       IF IsNullV(r.res) THEN [commands |-> commands, buf |-> r.buf]
       ELSE ParseLoop(r.buf, Append(commands, r.res))

RECURSIVE DispatchAll(_)
\* the loop of TCPClient._onData: the argument arrays given to handleCommand
DispatchAll(commands) ==
  IF commands = <<>> THEN <<>>
  ELSE LET c == Head(commands)
           words == IF c.t = "str" THEN SplitSpaces(c.v, <<>>) ELSE <<>>
       IN (IF c.t = "arr" /\ Len(c.v) > 0 THEN <<c.v>>
           ELSE IF c.t = "str" /\ words # <<>> THEN <<StrVs(words)>>
           ELSE <<>>) \o DispatchAll(Tail(commands))

(***************************************************************************)
(* TCPClient._onData on one connection                                     *)
(***************************************************************************)
\* the arguments clients send
Args == {<<"a">>, <<"b", "b">>}
Commands == UNION {[1..n -> Args] : n \in 1..MaxArgs}
CommandSeqs == UNION {[1..n -> Commands] : n \in 1..MaxCommands}

RECURSIVE Encode(_)
\* the bytes of a sequence of commands, each a RESP array of bulk strings
Encode(cs) == IF cs = <<>> THEN <<>> ELSE ArrayOfStrings(Head(cs)) \o Encode(Tail(cs))

\* TCPClient._onData: feed the chunk, parse, dispatch every complete command
OnData(n) ==
  /\ n \in 1..(Len(input) - fed)
  /\ LET r == ParseLoop(pbuf \o SubSeq(input, fed + 1, fed + n), <<>>) IN
       /\ pbuf' = r.buf
       /\ dispatched' = dispatched \o DispatchAll(r.commands)
  /\ fed' = fed + n
  /\ UNCHANGED <<sent, input, notParserVars>>

InitParser ==
  /\ sent \in CommandSeqs
  /\ input = Encode(sent)
  /\ fed = 0
  /\ pbuf = <<>>
  /\ dispatched = <<>>

NextParser == \E n \in 1..MaxChunk : OnData(n)


(***************************************************************************)
(* Claims about RESP framing                                               *)
(***************************************************************************)
\* the number of commands of cs whose bytes lie within the first n bytes
RECURSIVE CompleteCount(_, _)
CompleteCount(cs, n) ==
  IF cs = <<>> \/ Len(ArrayOfStrings(Head(cs))) > n THEN 0
  ELSE 1 + CompleteCount(Tail(cs), n - Len(ArrayOfStrings(Head(cs))))

AsDispatched(cs) == [i \in 1..Len(cs) |-> StrVs(cs[i])]

\* C4: framing does not depend on how the stream is cut into feed() calls:
\* after any feeds the dispatcher has been handed exactly the commands whose
\* bytes have all arrived (so the whole stream gives the commands of one
\* single feed), and the bytes of a command that is still incomplete, header
\* and earlier elements included, are all in the parser's buffer.
FramingIndependentOfChunks ==
  LET j == CompleteCount(sent, fed) IN
  /\ dispatched = AsDispatched(SubSeq(sent, 1, j))
  /\ pbuf = SubSeq(input, Len(Encode(SubSeq(sent, 1, j))) + 1, fed)

(***************************************************************************)
(* IOMultiplexer.  Its methods are functions of the multiplexer's state m, *)
(* the record MuxState.  Of the monitoring data it holds the error count   *)
(* of socketMetrics and what the health sweep reads and writes; the other  *)
(* counters (globalMetrics, bytes and messages sent), which no method      *)
(* reads to decide what to queue or write, are not part of the state.      *)
(***************************************************************************)
Sockets == {"s1", "s2"}
Priorities == {"priority", "normal", "low"}
EmptyQueues == [priority |-> <<>>, normal |-> <<>>, low |-> <<>>]
QueueTotal(q) == Len(q.priority) + Len(q.normal) + Len(q.low)

\* options.compressionThreshold and MessageHandler's maxChunkSize
compressionThreshold == 1024
maxChunkSize == 8192

EndsWithNewline(chars) == chars # <<>> /\ chars[Len(chars)] = LF

\* needsNewline ? content + "\n" : content
WithNewline(chars) == IF EndsWithNewline(chars) THEN chars ELSE Append(chars, LF)

\* content.replace(/\s+/g, " "): each run of white space becomes one space
CollapseSpaces(chars) ==
  LET starts == SelectSeq([i \in 1..Len(chars) |-> i],
                          LAMBDA i : ~IsSpace(chars[i]) \/ i = 1 \/ ~IsSpace(chars[i - 1]))
  IN [j \in 1..Len(starts) |-> IF IsSpace(chars[starts[j]]) THEN " " ELSE chars[starts[j]]]

\* String.trim() of a string whose white space is already collapsed
TrimCollapsed(chars) ==
  LET a == IF chars # <<>> /\ Head(chars) = " " THEN Tail(chars) ELSE chars
  IN IF a # <<>> /\ a[Len(a)] = " " THEN SubSeq(a, 1, Len(a) - 1) ELSE a

\* _compressMessage
CompressMessage(content) == TrimCollapsed(CollapseSpaces(content))

RECURSIVE ChunkList(_, _, _, _)
\* the chunk loop of _processMessageSync: CHUNK:<id>:<index>:<total>:<data>
ChunkList(chars, chunkSize, index, total) ==
  IF chars = <<>> THEN <<>>
  ELSE <<(<<"CHUNK:", "id", ":">> \o Decimal(index) \o <<":">> \o Decimal(total) \o <<":">>
          \o SubSeq(chars, 1, Min(chunkSize, Len(chars))))>>
       \o ChunkList(SubSeq(chars, chunkSize + 1, Len(chars)), chunkSize, index + 1, total)

\* _processMessageSync, with empty options
ProcessMessageSync(line) ==
  LET originalSize == Len(line)
      chunkSize == maxChunkSize - 100
  IN Then(IF originalSize > compressionThreshold THEN CompressMessage(line) ELSE line,
          LAMBDA simple :
            LET compressed == originalSize > compressionThreshold
                              /\ Len(simple) * 10 < originalSize * 8
            IN Then(IF compressed THEN simple ELSE line, LAMBDA processed :
                 IF Len(processed) > maxChunkSize
                 THEN [chunked |-> TRUE, compressed |-> compressed,
                       parts |-> ChunkList(processed, chunkSize, 0,
                                           (Len(processed) + chunkSize - 1) \div chunkSize)]
                 ELSE [chunked |-> FALSE, compressed |-> compressed,
                       parts |-> <<processed>>]))

\* the message objects enqueue() pushes for one payload; tag, and the number
\* of the message among those of its payload, are history
QueuedMessages(line, tag) ==
  Then(ProcessMessageSync(line), LAMBDA p :
    [i \in 1..Len(p.parts) |->
       [content |-> IF ~p.chunked /\ p.compressed
                    THEN <<"COMPRESSED:">> \o WithNewline(p.parts[i])
                    ELSE WithNewline(p.parts[i]),
        compressed |-> ~p.chunked /\ p.compressed,
        chunked |-> p.chunked,
        part |-> i, parts |-> Len(p.parts),
        tag |-> tag]])

\* what _flush hands to socket.write for a queued message
WrittenContent(msg) ==
  IF msg.compressed /\ msg.content # <<>> /\ Head(msg.content) = "COMPRESSED:"
  THEN Tail(msg.content) ELSE msg.content

\* the messages of one queue of a slot, each with the name of its queue
QueueEntries(q, name) == [i \in 1..Len(q[name]) |-> [msg |-> q[name][i], queue |-> name]]

\* a _flush that walks the queues from low to priority
FlushOrderLowFirst(q) ==
  QueueEntries(q, "low") \o QueueEntries(q, "normal") \o QueueEntries(q, "priority")

\* the messages of a slot in the order _flush takes them
FlushOrder(q) ==
  QueueEntries(q, "priority") \o QueueEntries(q, "normal") \o QueueEntries(q, "low")

\* the number of messages of a queue among the first n taken
Shifted(order, n, name) == Cardinality({i \in 1..n : order[i].queue = name})

\* the queues after queue.shift() for each of the first n messages taken
AfterShifts(q, order, n) ==
  [priority |-> SubSeq(q.priority, Shifted(order, n, "priority") + 1, Len(q.priority)),
   normal |-> SubSeq(q.normal, Shifted(order, n, "normal") + 1, Len(q.normal)),
   low |-> SubSeq(q.low, Shifted(order, n, "low") + 1, Len(q.low))]

\* a Map of the multiplexer has no entry for the socket
NoEntry == 0 - 1

\* an exit of _flush that leaves the flushing flag set
FlushDoneKeepsFlag(m, s) == [m EXCEPT !.batchTimers = @ \ {s}]

\* the exit of _flush after its try statement: the flag and the batch timer
\* of the slot are cleared
FlushDone(m, s) == [m EXCEPT !.flushing = @ \ {s}, !.batchTimers = @ \ {s}]

\* the health fields of a socket that has no slot, and of a new slot
NoHealth == [status |-> "none", lastActivity |-> 0, lastHealthCheck |-> 0, queueFullCount |-> 0]
NewHealth ==
  [status |-> "healthy", lastActivity |-> now, lastHealthCheck |-> now, queueFullCount |-> 0]

\* _updateConnectionHealth.  A flush is taken to last under 100 ms, so that
\* the slow_flush event does not occur.
UpdateConnectionHealth(m, s, event) ==
  IF m.connectionHealth[s] = NoEntry THEN m
  ELSE LET m1 == [m EXCEPT !.health[s].lastHealthCheck = now]
       IN CASE event \in {"error", "flush_error"} ->
                 [m1 EXCEPT !.connectionHealth[s] = @ + 1,
                            !.health[s].status =
                               IF m.connectionHealth[s] + 1 > 3 THEN "unhealthy" ELSE @]
            [] event = "queue_full" ->
                 [m1 EXCEPT !.health[s].queueFullCount = @ + 1,
                            !.health[s].status =
                               IF m.health[s].queueFullCount + 1 > 3 THEN "overloaded" ELSE @]
            [] event = "healthy" ->
                 [m1 EXCEPT !.connectionHealth[s] = 0,
                            !.health[s].queueFullCount = 0,
                            !.health[s].status = "healthy"]
            [] OTHER -> m1

\* the catch block of _flush: _updateSocketMetric(socket, "errors", 1) and
\* _updateConnectionHealth(socket, "flush_error", err)
FlushCatch(m, s) ==
  UpdateConnectionHealth(
    [m EXCEPT !.socketMetrics[s] = IF @ = NoEntry THEN @ ELSE @ + 1], s, "flush_error")

\* _flush.  The socket returns true from the next `accept` calls of write();
\* the call after them returns false ("full": that payload has been handed
\* to the socket too, and it stays at the head of its queue) or raises
\* ("throw").
MuxFlushWith(m, s, accept, outcome) ==
  IF s \in m.flushing THEN m
  ELSE IF s \notin m.registered \/ QueueTotal(m.queues[s]) = 0 THEN m
  ELSE LET all == FlushOrder(m.queues[s])
           n == Min(accept, Len(all))
           blocked == n < Len(all) /\ outcome = "full"
           threw == n < Len(all) /\ outcome = "throw"
           calls == IF blocked THEN n + 1 ELSE n
           m1 == [m EXCEPT !.flushing = @ \cup {s},
                           !.queues[s] = AfterShifts(@, all, n),
                           !.wire[s] = @ \o [i \in 1..calls |->
                                               [content |-> WrittenContent(all[i].msg),
                                                tag |-> all[i].msg.tag,
                                                part |-> all[i].msg.part,
                                                parts |-> all[i].msg.parts,
                                                queue |-> all[i].queue,
                                                ok |-> i <= n]],
                           !.needDrain[s] = @ \/ blocked,
                           !.refusals[s] = @ + (IF blocked THEN 1 ELSE 0),
                           !.throws[s] = @ + (IF threw THEN 1 ELSE 0)]
       IN FlushDone(IF threw THEN FlushCatch(m1, s) ELSE m1, s)

\* _flush on a socket whose write() does not raise
MuxFlush(m, s, accept) == MuxFlushWith(m, s, accept, "full")

\* _scheduleBatchFlush
MuxScheduleBatchFlush(m, s) == [m EXCEPT !.batchTimers = @ \cup {s}]

\* the queue-size check of enqueue when the slot is full
DropsOldestLow(q, priority) ==
  /\ QueueTotal(q) >= maxQueueSize
  /\ priority = "low" \/ (priority = "normal" /\ Len(q.low) > 0)
  /\ Len(q.low) > 0

RejectsIncoming(q, priority) ==
  /\ QueueTotal(q) >= maxQueueSize
  /\ priority = "low" \/ (priority = "normal" /\ Len(q.low) > 0)
  /\ Len(q.low) = 0

DropsOldestNormal(q, priority) ==
  /\ QueueTotal(q) >= maxQueueSize
  /\ ~(priority = "low" \/ (priority = "normal" /\ Len(q.low) > 0))
  /\ priority = "normal"
  /\ Len(q.normal) > Len(q.priority) * 2

AfterQueueFullPolicy(q, priority) ==
  IF DropsOldestLow(q, priority) THEN [q EXCEPT !.low = Tail(@)]
  ELSE IF DropsOldestNormal(q, priority) THEN [q EXCEPT !.normal = Tail(@)]
  ELSE q

\* a push that puts the new messages at the head of the queue
PushAllAtHead(queue, msgs) == msgs \o queue

\* queues[priority].push, for each message object of one payload
PushAll(queue, msgs) == queue \o msgs

\* enqueue: ok is the value returned; threw says that queues[priority].push
\* raised a TypeError, in the try block and again in its catch block,
\* because priority names none of the three queues
MuxEnqueue(m, s, line, priority, tag, accept) ==
  IF s \notin m.registered THEN [m |-> m, ok |-> FALSE, threw |-> FALSE]
  ELSE IF RejectsIncoming(m.queues[s], priority)
  THEN [m |-> UpdateConnectionHealth(m, s, "queue_full"), ok |-> FALSE, threw |-> FALSE]
  ELSE IF priority \notin Priorities THEN [m |-> m, ok |-> FALSE, threw |-> TRUE]
  ELSE LET q1 == AfterQueueFullPolicy(m.queues[s], priority)
           q2 == [q1 EXCEPT ![priority] = PushAll(@, QueuedMessages(line, tag))]
           m2 == [m EXCEPT !.queues[s] = q2, !.health[s].lastActivity = now]
       IN [m |-> IF priority = "priority" THEN MuxFlush(m2, s, accept)
                 ELSE MuxScheduleBatchFlush(m2, s),
           ok |-> TRUE, threw |-> FALSE]

\* registerSocket
MuxRegisterSocket(m, s) ==
  IF s \in m.registered THEN m
  ELSE [m EXCEPT !.registered = @ \cup {s}, !.queues[s] = EmptyQueues,
                 !.socketMetrics[s] = 0, !.connectionHealth[s] = 0,
                 !.health[s] = NewHealth]

\* a _cleanup that leaves the queues and the batch timer of the slot behind
MuxCleanupKeepsQueues(m, s) == [m EXCEPT !.registered = @ \ {s}]

\* _cleanup
MuxCleanup(m, s) ==
  [m EXCEPT !.registered = @ \ {s}, !.queues[s] = EmptyQueues, !.batchTimers = @ \ {s},
            !.flushing = @ \ {s}, !.socketMetrics[s] = NoEntry,
            !.connectionHealth[s] = NoEntry, !.health[s] = NoHealth]

\* the multiplexer's state as a record, and its assignment to the variables
MuxState ==
  [registered |-> registered, queues |-> queues, batchTimers |-> batchTimers,
   needDrain |-> needDrain, wire |-> wire, refusals |-> refusals,
   flushing |-> flushing, socketMetrics |-> socketMetrics,
   connectionHealth |-> connectionHealth, throws |-> throws, health |-> health]

MuxBecomes(m) ==
  /\ registered' = m.registered
  /\ queues' = m.queues
  /\ batchTimers' = m.batchTimers
  /\ needDrain' = m.needDrain
  /\ wire' = m.wire
  /\ refusals' = m.refusals
  /\ flushing' = m.flushing
  /\ socketMetrics' = m.socketMetrics
  /\ connectionHealth' = m.connectionHealth
  /\ throws' = m.throws
  /\ health' = m.health
  \* the bound on the refused writes of a socket
  /\ \A s \in Sockets : m.refusals[s] <= MaxRefusals

\* the payloads callers enqueue
Lines == {<<"x">>}

\* a socket connects and is registered with the multiplexer
MuxConnect(s) ==
  /\ running
  /\ conn[s] = "none"
  /\ conn' = [conn EXCEPT ![s] = "open"]
  /\ \E m \in {MuxRegisterSocket(MuxState, s)} : MuxBecomes(m)
  /\ UNCHANGED <<enqCount, notMuxVars>>

\* a caller enqueues a payload at one of the three priorities
MuxEnqueueCall(s, line, priority, accept) ==
  /\ running
  /\ conn[s] # "none"
  /\ enqCount[s] < MaxEnqueues
  /\ Len(wire[s]) < MaxWire
  /\ enqCount' = [enqCount EXCEPT ![s] = @ + 1]
  /\ \E r \in {MuxEnqueue(MuxState, s, line, priority,
                         [kind |-> "call", who |-> s, ch |-> "-", n |-> enqCount[s] + 1],
                         accept)} : MuxBecomes(r.m)
  /\ UNCHANGED <<conn, notMuxVars>>

\* the batch timer of a slot fires: the callback of _scheduleBatchFlush
MuxBatchTimer(s, accept) ==
  /\ running
  /\ s \in batchTimers
  /\ Len(wire[s]) < MaxWire
  /\ \E m \in {MuxFlush([MuxState EXCEPT !.batchTimers = @ \ {s}], s, accept)} : MuxBecomes(m)
  /\ UNCHANGED <<conn, enqCount, notMuxVars>>

\* the socket's 'drain' event: the handler of registerSocket
MuxDrain(s, accept) ==
  /\ running
  /\ conn[s] = "open"
  /\ needDrain[s]
  /\ Len(wire[s]) < MaxWire
  /\ \E m \in {MuxFlush([MuxState EXCEPT !.needDrain[s] = FALSE], s, accept)} : MuxBecomes(m)
  /\ UNCHANGED <<conn, enqCount, notMuxVars>>

\* the socket's 'error' event: the handler of registerSocket
MuxSocketError(s) ==
  /\ running
  /\ conn[s] = "open"
  /\ conn' = [conn EXCEPT ![s] = "errored"]
  /\ \E m \in {MuxCleanup(MuxState, s)} : MuxBecomes(m)
  /\ UNCHANGED <<enqCount, notMuxVars>>

\* the socket's 'close' event: the handler of registerSocket
MuxSocketClose(s) ==
  /\ running
  /\ conn[s] \in {"open", "errored"}
  /\ conn' = [conn EXCEPT ![s] = "closed"]
  /\ \E m \in {MuxCleanup(MuxState, s)} : MuxBecomes(m)
  /\ UNCHANGED <<enqCount, notMuxVars>>

InitMux ==
  /\ conn = [s \in Sockets |-> "none"]
  /\ registered = {}
  /\ queues = [s \in Sockets |-> EmptyQueues]
  /\ batchTimers = {}
  /\ needDrain = [s \in Sockets |-> FALSE]
  /\ wire = [s \in Sockets |-> <<>>]
  /\ enqCount = [s \in Sockets |-> 0]
  /\ refusals = [s \in Sockets |-> 0]
  /\ flushing = {}
  /\ socketMetrics = [s \in Sockets |-> NoEntry]
  /\ connectionHealth = [s \in Sockets |-> NoEntry]
  /\ throws = [s \in Sockets |-> 0]
  /\ health = [s \in Sockets |-> NoHealth]

\* the multiplexer keeps one slot per socket and no method touches two slots:
\* the multiplexer on its own is explored with one socket
MuxSockets == {"s1"}

NextMux ==
  \/ \E s \in MuxSockets : MuxConnect(s)
  \/ \E s \in MuxSockets, line \in Lines, p \in Priorities, a \in 0..(maxQueueSize + 1) :
       MuxEnqueueCall(s, line, p, a)
  \/ \E s \in MuxSockets, a \in 0..(maxQueueSize + 1) : MuxBatchTimer(s, a)
  \/ \E s \in MuxSockets, a \in 0..(maxQueueSize + 1) : MuxDrain(s, a)
  \/ \E s \in MuxSockets : MuxSocketError(s)
  \/ \E s \in MuxSockets : MuxSocketClose(s)

\* the batch timer of a slot fires, and the write() after `accept` calls raises
MuxBatchTimerThrows(s, accept) ==
  /\ running
  /\ s \in batchTimers
  /\ Len(wire[s]) < MaxWire
  /\ throws[s] < MaxThrows
  /\ accept < QueueTotal(queues[s])
  /\ \E m \in {MuxFlushWith([MuxState EXCEPT !.batchTimers = @ \ {s}], s, accept, "throw")} :
       MuxBecomes(m)
  /\ UNCHANGED <<conn, enqCount, notMuxVars>>

\* the socket's 'drain' event, and the write() after `accept` calls raises
MuxDrainThrows(s, accept) ==
  /\ running
  /\ conn[s] = "open"
  /\ needDrain[s]
  /\ Len(wire[s]) < MaxWire
  /\ throws[s] < MaxThrows
  /\ accept < QueueTotal(queues[s])
  /\ \E m \in {MuxFlushWith([MuxState EXCEPT !.needDrain[s] = FALSE], s, accept, "throw")} :
       MuxBecomes(m)
  /\ UNCHANGED <<conn, enqCount, notMuxVars>>

\* the multiplexer on a socket whose write() can raise
NextFlush ==
  \/ NextMux
  \/ \E s \in MuxSockets, a \in 0..maxQueueSize : MuxBatchTimerThrows(s, a)
  \/ \E s \in MuxSockets, a \in 0..maxQueueSize : MuxDrainThrows(s, a)

\* payloads above the thresholds: one that its white space makes
\* compressible, and one that takes two chunks
SpacedLine == [i \in 1..(compressionThreshold + 1) |-> IF i % 3 = 1 THEN "a" ELSE " "]
BigLine == [i \in 1..(maxChunkSize + 1) |-> "a"]
PayloadLines == Lines \cup {SpacedLine, BigLine}

\* the multiplexer under callers that enqueue small and large payloads
NextPayload ==
  \/ \E s \in MuxSockets : MuxConnect(s)
  \/ \E s \in MuxSockets, line \in PayloadLines, p \in Priorities, a \in 0..(maxQueueSize + 1) :
       enqCount[s] < MaxPayloads /\ MuxEnqueueCall(s, line, p, a)
  \/ \E s \in MuxSockets, a \in 0..(maxQueueSize + 1) : MuxBatchTimer(s, a)
  \/ \E s \in MuxSockets, a \in 0..(maxQueueSize + 1) : MuxDrain(s, a)

(***************************************************************************)
(* PubSub, TCPClient.send and the pub/sub commands of                      *)
(* TCPServer.handleCommand.  A connection's TCPClient and its socket share *)
(* one name.  The methods are functions of the server's state S: the       *)
(* multiplexer's state, the connections' subscription fields and the       *)
(* broker's Maps.  Channel names and messages are one-character strings.   *)
(***************************************************************************)
Clients == Sockets
Channels == {"a", "b"}
Messages == {"m"}
SubscriberPriorities == {"high", "medium", "low"}
EmptyGroups == [high |-> {}, medium |-> {}, low |-> {}]

\* PubSub.options
maxBufferedMessages == 100
largeChannelThreshold == 100

\* publish() called with no options, as handleCommand calls it
NoOptions == [priority |-> "none", immediate |-> FALSE]
\* the options of the broker's other callers
PublishOptions == {[priority |-> "low", immediate |-> FALSE],
                   [priority |-> "low", immediate |-> TRUE]}

SubscribeWord == <<"s", "u", "b", "s", "c", "r", "i", "b", "e">>
UnsubscribeWord == <<"u", "n">> \o SubscribeWord
MessageWord == <<"m", "e", "s", "s", "a", "g", "e">>
PongWord == <<"P", "O", "N", "G">>

\* RESPFormatter.simpleString, error, integer
SimpleString(chars) == <<"+">> \o chars \o <<CR, LF>>
ErrorString(chars) == <<"-">> \o chars \o <<CR, LF>>
IntegerReply(n) ==
  <<":">> \o (IF n < 0 THEN <<"-">> \o Decimal(-n) ELSE Decimal(n)) \o <<CR, LF>>

NullBulk == <<"$", "-", "1", CR, LF>>

RECURSIVE JoinComma(_)
\* String(item) for an item that is an array of strings: Array.prototype.join
JoinComma(elems) ==
  IF elems = <<>> THEN <<>>
  ELSE Head(elems).v \o (IF Len(elems) > 1 THEN <<",">> ELSE <<>>) \o JoinComma(Tail(elems))

RECURSIVE ArrayItems(_)
\* the loop of RESPFormatter.array: strings as bulk strings, numbers as
\* integers, null as the null bulk, anything else as the bulk of String(item)
ArrayItems(items) ==
  IF items = <<>> THEN <<>>
  ELSE (CASE Head(items).t = "int" -> IntegerReply(Head(items).v[1])
          [] Head(items).t = "null" -> NullBulk
          [] Head(items).t = "arr" -> BulkString(JoinComma(Head(items).v))
          [] OTHER -> BulkString(Head(items).v))
       \o ArrayItems(Tail(items))

\* RESPFormatter.array
FormatArray(items) == <<"*">> \o Decimal(Len(items)) \o <<CR, LF>> \o ArrayItems(items)

ServerState ==
  [mux |-> MuxState, subscribed |-> subscribed, channels |-> channels,
   subscriberGroups |-> subscriberGroups,
   subscriptionPriorities |-> subscriptionPriorities,
   messageBuffer |-> messageBuffer, cmdCount |-> cmdCount, pubLog |-> pubLog]

ServerBecomes(S) ==
  /\ MuxBecomes(S.mux)
  /\ subscribed' = S.subscribed
  /\ channels' = S.channels
  /\ subscriberGroups' = S.subscriberGroups
  /\ subscriptionPriorities' = S.subscriptionPriorities
  /\ messageBuffer' = S.messageBuffer
  /\ cmdCount' = S.cmdCount
  /\ pubLog' = S.pubLog

\* socket.destroyed
Destroyed(s) == conn[s] \in {"errored", "closed"}

\* TCPClient.send once the response is formatted: enqueue at the default priority
ClientSend(S, c, response, tag) ==
  [S EXCEPT !.mux = MuxEnqueue(@, c, response, "normal", tag, 0).m]

\* channels.get(channel), an empty set when the channel is absent
ChannelSet(S, ch) == IF MapHas(S.channels, ch) THEN MapGet(S.channels, ch) ELSE {}

\* PubSub.subscribe
PsSubscribe(S, c, ch, priority) ==
  LET isNew == ~MapHas(S.channels, ch)
      chans == IF isNew THEN MapSet(S.channels, ch, {}) ELSE S.channels
      groups == IF isNew THEN MapSet(S.subscriberGroups, ch, EmptyGroups)
                ELSE S.subscriberGroups
      groupKey == IF priority \in SubscriberPriorities THEN priority ELSE "medium"
  IN [S EXCEPT !.channels = MapSet(chans, ch, MapGet(chans, ch) \cup {c}),
               !.subscriberGroups =
                  MapSet(groups, ch, [MapGet(groups, ch) EXCEPT ![groupKey] = @ \cup {c}]),
               !.subscriptionPriorities[c] = MapSet(@, ch, priority)]

\* an unsubscribe that leaves the client in the channel's set
PsUnsubscribeKeepsClient(S, c, ch) ==
  [S EXCEPT !.subscriptionPriorities[c] = MapDelete(@, ch)]

\* PubSub.unsubscribe
PsUnsubscribe(S, c, ch) ==
  IF ~MapHas(S.channels, ch) THEN S
  ELSE LET channelSet == MapGet(S.channels, ch) \ {c}
           groups == IF MapHas(S.subscriberGroups, ch)
                     THEN MapSet(S.subscriberGroups, ch,
                                 [p \in SubscriberPriorities |->
                                    MapGet(S.subscriberGroups, ch)[p] \ {c}])
                     ELSE S.subscriberGroups
           prios == [S.subscriptionPriorities EXCEPT ![c] = MapDelete(@, ch)]
       IN IF channelSet = {}
          THEN [S EXCEPT !.channels = MapDelete(@, ch),
                         !.subscriberGroups = MapDelete(groups, ch),
                         !.subscriptionPriorities = prios,
                         !.messageBuffer = MapDelete(@, ch)]
          ELSE [S EXCEPT !.channels = MapSet(@, ch, channelSet),
                         !.subscriberGroups = groups,
                         !.subscriptionPriorities = prios]

RECURSIVE UnsubscribeEach(_, _, _)
UnsubscribeEach(S, c, chs) ==
  IF chs = <<>> THEN S
  ELSE Then(PsUnsubscribe(S, c, Head(chs)), LAMBDA S1 : UnsubscribeEach(S1, c, Tail(chs)))

\* PubSub.unsubscribeAll
PsUnsubscribeAll(S, c) ==
  LET subscribedChannels ==
        SelectSeq(MapKeys(S.channels), LAMBDA ch : c \in MapGet(S.channels, ch))
  IN [UnsubscribeEach(S, c, subscribedChannels) EXCEPT !.subscriptionPriorities[c] = <<>>]

RECURSIVE SetToSeq(_)
\* Array.from(set): the deliveries to different sockets touch different slots,
\* so the order of the sockets does not show in any slot
SetToSeq(set) ==
  IF set = {} THEN <<>>
  ELSE LET x == CHOOSE y \in set : TRUE IN <<x>> \o SetToSeq(set \ {x})

RECURSIVE MuxBroadcast(_, _, _, _, _)
\* the loop of IOMultiplexer.broadcast over at most 100 sockets, which is
\* also the loop of _broadcastInChunks over one chunk: threw says that an
\* enqueue raised, which ends the loop and the caller
MuxBroadcast(m, socks, line, priority, tag) ==
  IF socks = <<>> THEN [m |-> m, successCount |-> 0, failureCount |-> 0, threw |-> FALSE]
  ELSE IF Len(socks) = 1
  THEN IF Destroyed(Head(socks))
       THEN [m |-> m, successCount |-> 0, failureCount |-> 1, threw |-> FALSE]
       ELSE Then(MuxEnqueue(m, Head(socks), line, priority, tag, 0), LAMBDA r :
              [m |-> r.m,
               successCount |-> IF r.ok THEN 1 ELSE 0,
               failureCount |-> IF r.ok \/ r.threw THEN 0 ELSE 1,
               threw |-> r.threw])
  \* the iterations over the first half of the array, then those over the rest
  ELSE Then(MuxBroadcast(m, SubSeq(socks, 1, Len(socks) \div 2), line, priority, tag),
            LAMBDA r :
         IF r.threw THEN r
         ELSE Then(MuxBroadcast(r.m, SubSeq(socks, Len(socks) \div 2 + 1, Len(socks)),
                                line, priority, tag), LAMBDA rest :
                [m |-> rest.m,
                 successCount |-> IF rest.threw THEN 0
                                  ELSE rest.successCount + r.successCount,
                 failureCount |-> IF rest.threw THEN 0
                                  ELSE rest.failureCount + r.failureCount,
                 threw |-> rest.threw]))

\* socketArray.length > 100 sends broadcast to _broadcastInChunks
syncBroadcastLimit == 100
chunkSize == 50
MaxBroadcasts == 2

\* the socket arrays callers broadcast to: one socket, both sockets, and an
\* array of 101 entries that names the two sockets in turn
LargeArray == [i \in 1..(syncBroadcastLimit + 1) |-> IF i % 2 = 1 THEN "s1" ELSE "s2"]
SocketArrays == {<<"s1">>, <<"s1", "s2">>, LargeArray}

\* sockets.slice(i, i + chunkSize)
ChunkAt(sockets, i) == SubSeq(sockets, i + 1, Min(i + chunkSize, Len(sockets)))

\* IOMultiplexer.broadcast: a large array is handed to _broadcastInChunks,
\* whose promise is dropped; it runs its first chunk before it yields, and
\* broadcast returns its own two counters
MuxBroadcastCall(socks, line, priority) ==
  /\ running
  /\ lastBroadcast.calls < MaxBroadcasts
  /\ \E tag \in {[kind |-> "broadcast", who |-> "-", ch |-> "-",
                   n |-> lastBroadcast.calls + 1]} :
       IF Len(socks) > syncBroadcastLimit
       THEN \E r \in {MuxBroadcast(MuxState, ChunkAt(socks, 0), line, priority, tag)} :
              /\ ~r.threw
              /\ MuxBecomes(r.m)
              /\ pendingChunks' =
                   IF chunkSize < Len(socks)
                   THEN Append(pendingChunks,
                               [sockets |-> socks, i |-> chunkSize, line |-> line,
                                priority |-> priority, tag |-> tag,
                                successCount |-> r.successCount,
                                failureCount |-> r.failureCount])
                   ELSE pendingChunks
              /\ lastBroadcast' = [n |-> Len(socks), successCount |-> 0, failureCount |-> 0,
                                   enqueued |-> r.successCount,
                                   calls |-> lastBroadcast.calls + 1]
       ELSE \E r \in {MuxBroadcast(MuxState, socks, line, priority, tag)} :
              /\ ~r.threw
              /\ MuxBecomes(r.m)
              /\ pendingChunks' = pendingChunks
              /\ lastBroadcast' = [n |-> Len(socks), successCount |-> r.successCount,
                                   failureCount |-> r.failureCount,
                                   enqueued |-> r.successCount,
                                   calls |-> lastBroadcast.calls + 1]
  /\ UNCHANGED <<conn, enqCount, storeVars, parserVars, brokerVars, running, lastCmd>>

\* the setImmediate callback of _broadcastInChunks: the loop goes on with the
\* next chunk
BroadcastNextChunk ==
  /\ running
  /\ pendingChunks # <<>>
  /\ \E p \in {Head(pendingChunks)} :
       \E r \in {MuxBroadcast(MuxState, ChunkAt(p.sockets, p.i), p.line, p.priority, p.tag)} :
         /\ ~r.threw
         /\ MuxBecomes(r.m)
         /\ pendingChunks' =
              IF p.i + chunkSize < Len(p.sockets)
              THEN Append(Tail(pendingChunks),
                          [p EXCEPT !.i = @ + chunkSize,
                                    !.successCount = @ + r.successCount,
                                    !.failureCount = @ + r.failureCount])
              ELSE Tail(pendingChunks)
  /\ UNCHANGED <<conn, enqCount, lastBroadcast, storeVars, parserVars, brokerVars, running, lastCmd>>

\* the multiplexer under callers that broadcast
NextBroadcast ==
  \/ \E s \in Sockets : MuxConnect(s)
  \/ \E socks \in SocketArrays, line \in Lines, p \in Priorities :
       MuxBroadcastCall(socks, line, p)
  \/ BroadcastNextChunk
  \/ \E s \in Sockets : MuxBatchTimer(s, maxQueueSize + 1)
  \/ \E s \in Sockets : MuxDrain(s, maxQueueSize + 1)
  \/ \E s \in Sockets : MuxSocketClose(s)

\* the priority group _flushChannelBuffer files a buffered message under
GroupOf(options) ==
  IF options.priority \in SubscriberPriorities THEN options.priority ELSE "medium"

\* options.priority || "medium"
PriorityOrMedium(options) ==
  IF options.priority = "none" THEN "medium" ELSE options.priority

RECURSIVE BroadcastEach(_, _, _)
\* the delivery loops of _flushChannelBuffer over the grouped messages
BroadcastEach(m, socks, msgs) ==
  IF msgs = <<>> THEN [m |-> m, successCount |-> 0, threw |-> FALSE]
  ELSE Then(MuxBroadcast(m, socks, Head(msgs).message, GroupOf(Head(msgs).options),
                         Head(msgs).tag), LAMBDA r :
         IF r.threw THEN r
         ELSE Then(BroadcastEach(r.m, socks, Tail(msgs)), LAMBDA rest :
                [m |-> rest.m, successCount |-> rest.successCount + r.successCount,
                 threw |-> rest.threw]))

\* PubSub._flushChannelBuffer: ret is the value returned, threw says that
\* it raised before clearing the buffer
PsFlushChannelBuffer(S, ch) ==
  LET buffer == IF MapHas(S.messageBuffer, ch) THEN MapGet(S.messageBuffer, ch) ELSE <<>>
      channelSet == ChannelSet(S, ch)
  IN IF buffer = <<>> THEN [S |-> S, ret |-> 0, threw |-> FALSE]
     ELSE IF channelSet = {}
     THEN [S |-> [S EXCEPT !.messageBuffer = MapSet(@, ch, <<>>)], ret |-> 0, threw |-> FALSE]
     ELSE LET grouped == SelectSeq(buffer, LAMBDA b : GroupOf(b.options) = "high")
                         \o SelectSeq(buffer, LAMBDA b : GroupOf(b.options) = "medium")
                         \o SelectSeq(buffer, LAMBDA b : GroupOf(b.options) = "low")
              socks == SetToSeq({c \in channelSet : ~Destroyed(c)})
          IN Then(BroadcastEach(S.mux, socks, grouped), LAMBDA r :
               IF r.threw THEN [S |-> [S EXCEPT !.mux = r.m], ret |-> 0, threw |-> TRUE]
               ELSE [S |-> [S EXCEPT !.mux = r.m, !.messageBuffer = MapSet(@, ch, <<>>)],
                     ret |-> r.successCount, threw |-> FALSE])

RECURSIVE FlushEach(_, _)
FlushEach(S, chs) ==
  IF chs = <<>> THEN [S |-> S, ret |-> 0, threw |-> FALSE]
  ELSE Then(PsFlushChannelBuffer(S, Head(chs)), LAMBDA r :
         IF r.threw THEN r
         ELSE Then(FlushEach(r.S, Tail(chs)), LAMBDA rest :
                [S |-> rest.S, ret |-> r.ret + rest.ret, threw |-> rest.threw]))

\* PubSub._flushMessageBuffers
PsFlushMessageBuffers(S) == FlushEach(S, MapKeys(S.messageBuffer))

\* PubSub._bufferMessage
PsBufferMessage(S, ch, formattedMessage, options, tag) ==
  LET old == IF MapHas(S.messageBuffer, ch) THEN MapGet(S.messageBuffer, ch) ELSE <<>>
      buffer == Append(old, [message |-> formattedMessage, options |-> options, tag |-> tag])
  IN Then([S EXCEPT !.messageBuffer = MapSet(@, ch, buffer)], LAMBDA S1 :
       IF Len(buffer) >= maxBufferedMessages THEN PsFlushChannelBuffer(S1, ch)
       ELSE [S |-> S1, ret |-> Cardinality(ChannelSet(S1, ch)), threw |-> FALSE])

\* PubSub._publishWithMultiplexer
PsPublishWithMultiplexer(S, formattedMessage, channelSet, options, tag) ==
  LET socks == SetToSeq({c \in channelSet : ~Destroyed(c)})
  IN Then(MuxBroadcast(S.mux, socks, formattedMessage, PriorityOrMedium(options), tag),
          LAMBDA r :
            [S |-> [S EXCEPT !.mux = r.m],
             ret |-> IF r.successCount # 0 THEN r.successCount ELSE Len(socks),
             threw |-> r.threw])

\* PubSub.publish; who, the caller, is history
PsPublish(S, who, ch, message, options) ==
  LET channelSet == ChannelSet(S, ch)
      formattedMessage == MessageWord \o <<" ", ch, " ", message>>
      isLargeChannel == Cardinality(channelSet) >= largeChannelThreshold
      tag == [kind |-> "pub", who |-> who, ch |-> ch, n |-> Len(S.pubLog) + 1]
  IN IF channelSet = {} THEN [S |-> S, ret |-> 0, threw |-> FALSE]
     ELSE Then([S EXCEPT !.pubLog = Append(@, [who |-> who, ch |-> ch, message |-> message,
                                               targets |-> channelSet])], LAMBDA S1 :
            IF ~options.immediate /\ ~isLargeChannel
            THEN PsBufferMessage(S1, ch, formattedMessage, options, tag)
            ELSE PsPublishWithMultiplexer(S1, formattedMessage, channelSet, options, tag))

\* one connection's commands: PING, SUBSCRIBE ch, UNSUBSCRIBE [ch], PUBLISH ch m
ServerCommands ==
  {[name |-> "PING", args |-> <<>>], [name |-> "UNSUBSCRIBE", args |-> <<>>]}
  \cup {[name |-> "SUBSCRIBE", args |-> <<ch>>] : ch \in Channels}
  \cup {[name |-> "UNSUBSCRIBE", args |-> <<ch>>] : ch \in Channels}
  \cup {[name |-> "PUBLISH", args |-> <<ch, msg>>] : ch \in Channels, msg \in Messages}

\* the commands of one 'data' event
Pipelines == UNION {[1..n -> ServerCommands] : n \in 1..MaxPipeline}

WrongArguments(name) ==
  <<"ERR wrong number of arguments for '", name, "' command">>

RECURSIVE SubscribeLoop(_, _, _, _)
\* the loop of case "SUBSCRIBE"
SubscribeLoop(S, c, chs, tag) ==
  IF chs = <<>> THEN S
  ELSE LET ch == Head(chs) IN
       Then(IF ch \in Range(S.subscribed[c]) THEN S
            ELSE Then([S EXCEPT !.subscribed[c] = Append(@, ch)],
                      LAMBDA S0 : PsSubscribe(S0, c, ch, "medium")),
            LAMBDA S1 :
              Then(ClientSend(S1, c,
                              FormatArray(<<StrV(SubscribeWord), StrV(<<ch>>),
                                            IntV(Len(S1.subscribed[c]))>>), tag),
                   LAMBDA S2 : SubscribeLoop(S2, c, Tail(chs), tag)))

RECURSIVE UnsubscribeLoop(_, _, _, _)
\* the loop of case "UNSUBSCRIBE"
UnsubscribeLoop(S, c, chs, tag) ==
  IF chs = <<>> THEN S
  ELSE LET ch == Head(chs) IN
       Then(IF ch \in Range(S.subscribed[c])
            THEN Then([S EXCEPT !.subscribed[c] = SelectSeq(@, LAMBDA x : x # ch)],
                      LAMBDA S0 : PsUnsubscribe(S0, c, ch))
            ELSE S,
            LAMBDA S1 :
              Then(ClientSend(S1, c,
                              FormatArray(<<StrV(UnsubscribeWord), StrV(<<ch>>),
                                            IntV(Len(S1.subscribed[c]))>>), tag),
                   LAMBDA S2 : UnsubscribeLoop(S2, c, Tail(chs), tag)))

\* a catch block of handleCommand that sends nothing
OnHandlerErrorSilent(S, c, tag) == S

\* the catch block of handleCommand; the TypeError of queues[priority].push
\* is the one exception the broker and the multiplexer raise
OnHandlerError(S, c, tag) ==
  ClientSend(S, c,
             ErrorString(<<"ERR ", "Cannot read properties of undefined (reading 'push')">>), tag)

\* TCPServer.handleCommand; the command's number, carried by its replies, is history
HandleCommand(S, c, cmd) ==
  LET tag == [kind |-> "reply", who |-> c, ch |-> "-", n |-> S.cmdCount[c] + 1] IN
  Then([S EXCEPT !.cmdCount[c] = @ + 1], LAMBDA S0 :
     CASE cmd.name = "PING" -> ClientSend(S0, c, SimpleString(PongWord), tag)
       [] cmd.name = "SUBSCRIBE" ->
            IF Len(cmd.args) < 1
            THEN ClientSend(S0, c, ErrorString(WrongArguments("SUBSCRIBE")), tag)
            ELSE SubscribeLoop(S0, c, cmd.args, tag)
       [] cmd.name = "UNSUBSCRIBE" ->
            UnsubscribeLoop(S0, c, IF Len(cmd.args) > 0 THEN cmd.args ELSE S0.subscribed[c], tag)
       [] cmd.name = "PUBLISH" ->
            IF Len(cmd.args) < 2
            THEN ClientSend(S0, c, ErrorString(WrongArguments("PUBLISH")), tag)
            ELSE Then(PsPublish(S0, c, cmd.args[1], cmd.args[2], NoOptions), LAMBDA r :
                   IF r.threw THEN OnHandlerError(r.S, c, tag)
                   ELSE ClientSend(r.S, c, IntegerReply(r.ret), tag))
       [] OTHER ->
            ClientSend(S0, c, ErrorString(<<"ERR unknown command '", cmd.name, "'">>), tag))

RECURSIVE SumOver(_, _)
SumOver(f, set) ==
  IF set = {} THEN 0
  ELSE LET x == CHOOSE y \in set : TRUE IN f[x] + SumOver(f, set \ {x})

\* the number of commands the connections have sent
TotalCommands == SumOver(cmdCount, Clients)

RECURSIVE HandleEach(_, _, _)
\* the loop of TCPClient._onData over the parsed commands
HandleEach(S, c, cmds) ==
  IF cmds = <<>> THEN S
  ELSE Then(HandleCommand(S, c, Head(cmds)), LAMBDA S1 : HandleEach(S1, c, Tail(cmds)))

\* net.createServer's callback: new Client(socket, this)
ClientConnect(c) ==
  /\ running
  /\ conn[c] = "none"
  /\ conn' = [conn EXCEPT ![c] = "open"]
  /\ \E S \in {[ServerState EXCEPT !.mux = MuxRegisterSocket(@, c),
                                      !.subscribed[c] = <<>>]} : ServerBecomes(S)
  /\ UNCHANGED <<enqCount, running, notServerVars>>

\* TCPClient._onData with a chunk that holds the commands cmds
ClientOnData(c, cmds) ==
  /\ running
  /\ conn[c] = "open"
  /\ TotalCommands + Len(cmds) <= MaxCmds
  /\ \E S \in {HandleEach(ServerState, c, cmds)} :
       /\ Len(S.pubLog) <= MaxPublishes
       /\ ServerBecomes(S)
  /\ UNCHANGED <<conn, enqCount, running, notServerVars>>

\* PubSub.publish called with options by another part of the process
BrokerPublish(ch, message, options) ==
  /\ running
  /\ Len(pubLog) < MaxPublishes
  /\ \E r \in {PsPublish(ServerState, "api", ch, message, options)} : ServerBecomes(r.S)
  /\ UNCHANGED <<conn, enqCount, running, notServerVars>>

\* the setInterval callback of PubSub's constructor.  An exception that
\* leaves it is an uncaught exception: the process exits.
FlushMessageBuffers ==
  /\ running
  /\ \E r \in {PsFlushMessageBuffers(ServerState)} :
       /\ ServerBecomes(r.S)
       /\ running' = ~r.threw
  /\ UNCHANGED <<conn, enqCount, notServerVars>>

\* the socket's 'close' event: TCPClient._onClose, then the multiplexer's handler
SocketClose(c) ==
  /\ running
  /\ conn[c] \in {"open", "errored"}
  /\ conn' = [conn EXCEPT ![c] = "closed"]
  /\ \E S \in {[PsUnsubscribeAll(ServerState, c) EXCEPT !.mux = MuxCleanup(@, c)]} :
       ServerBecomes(S)
  /\ UNCHANGED <<enqCount, running, notServerVars>>

InitBroker ==
  /\ subscribed = [c \in Clients |-> <<>>]
  /\ channels = <<>>
  /\ subscriberGroups = <<>>
  /\ subscriptionPriorities = [c \in Clients |-> <<>>]
  /\ messageBuffer = <<>>
  /\ running = TRUE
  /\ cmdCount = [c \in Clients |-> 0]
  /\ pubLog = <<>>
  /\ lastCmd = <<>>
  /\ pendingChunks = <<>>
  /\ lastBroadcast = [n |-> 0, successCount |-> 0, failureCount |-> 0, enqueued |-> 0,
                      calls |-> 0]

\* the server as its connections drive it
NextServer ==
  \/ \E c \in Clients : ClientConnect(c)
  \/ \E c \in Clients, cmds \in Pipelines : ClientOnData(c, cmds)
  \/ FlushMessageBuffers
  \/ \E s \in Sockets, a \in 0..(maxQueueSize + 1) : MuxBatchTimer(s, a)
  \/ \E s \in Sockets, a \in 0..(maxQueueSize + 1) : MuxDrain(s, a)
  \/ \E s \in Sockets : MuxSocketError(s)
  \/ \E c \in Clients : SocketClose(c)

\* the commands that change a connection's subscriptions
SubscriptionCommands == {cmd \in ServerCommands : cmd.name \in {"SUBSCRIBE", "UNSUBSCRIBE"}}

\* the broker called with options, under connections that subscribe and unsubscribe
NextBroker ==
  \/ \E c \in Clients : ClientConnect(c)
  \/ \E c \in Clients, cmd \in SubscriptionCommands :
       TotalCommands < MaxBrokerCmds /\ ClientOnData(c, <<cmd>>)
  \/ \E ch \in Channels, msg \in Messages, o \in PublishOptions : BrokerPublish(ch, msg, o)
  \/ FlushMessageBuffers
  \/ \E s \in Sockets, a \in 0..(maxQueueSize + 1) : MuxBatchTimer(s, a)
  \/ \E s \in Sockets, a \in 0..(maxQueueSize + 1) : MuxDrain(s, a)
  \/ \E c \in Clients : SocketClose(c)

\* the server record after construction, and its assignment in an initial state
InitialServer ==
  [mux |-> [registered |-> {}, queues |-> [s \in Sockets |-> EmptyQueues],
            batchTimers |-> {}, needDrain |-> [s \in Sockets |-> FALSE],
            wire |-> [s \in Sockets |-> <<>>], refusals |-> [s \in Sockets |-> 0],
            flushing |-> {}, socketMetrics |-> [s \in Sockets |-> NoEntry],
            connectionHealth |-> [s \in Sockets |-> NoEntry],
            throws |-> [s \in Sockets |-> 0], health |-> [s \in Sockets |-> NoHealth]],
   subscribed |-> [c \in Clients |-> <<>>], channels |-> <<>>, subscriberGroups |-> <<>>,
   subscriptionPriorities |-> [c \in Clients |-> <<>>], messageBuffer |-> <<>>,
   cmdCount |-> [c \in Clients |-> 0], pubLog |-> <<>>]

ServerIs(S) ==
  /\ registered = S.mux.registered
  /\ queues = S.mux.queues
  /\ batchTimers = S.mux.batchTimers
  /\ needDrain = S.mux.needDrain
  /\ wire = S.mux.wire
  /\ refusals = S.mux.refusals
  /\ flushing = S.mux.flushing
  /\ socketMetrics = S.mux.socketMetrics
  /\ connectionHealth = S.mux.connectionHealth
  /\ throws = S.mux.throws
  /\ health = S.mux.health
  /\ subscribed = S.subscribed
  /\ channels = S.channels
  /\ subscriberGroups = S.subscriberGroups
  /\ subscriptionPriorities = S.subscriptionPriorities
  /\ messageBuffer = S.messageBuffer
  /\ cmdCount = S.cmdCount
  /\ pubLog = S.pubLog

\* a burst of PUBLISH commands that one 'data' event carries: the buffer
\* flush timer does not run between them
BurstLen == maxBufferedMessages - 2
PublishAM == [name |-> "PUBLISH", args |-> <<"a", "m">>]
BurstCommands ==
  {[name |-> "PING", args |-> <<>>], PublishAM, [name |-> "PUBLISH", args |-> <<"b", "m">>]}

RECURSIVE HandleTimes(_, _, _, _)
\* the loop of TCPClient._onData over n copies of one command, split in
\* halves so that the evaluation nests no deeper than the logarithm of n
HandleTimes(S, c, cmd, n) ==
  IF n = 0 THEN S
  ELSE IF n = 1 THEN HandleCommand(S, c, cmd)
  ELSE Then(HandleTimes(S, c, cmd, n \div 2),
            LAMBDA S1 : HandleTimes(S1, c, cmd, n - (n \div 2)))

\* s1 and s2 connect, s1 subscribes to a, s2 sends the burst
AfterBurst ==
  Then(HandleCommand([InitialServer EXCEPT
                        !.mux = MuxRegisterSocket(MuxRegisterSocket(@, "s1"), "s2")],
                     "s1", [name |-> "SUBSCRIBE", args |-> <<"a">>]),
       LAMBDA S : HandleTimes(S, "s2", PublishAM, BurstLen))

\* the words of a command as the parser hands them to handleCommand
WordsOf(cmd) == <<cmd.name>> \o cmd.args

\* TCPClient._onData with a chunk that holds one command
ClientCommand(c, cmd) ==
  /\ running
  /\ conn[c] = "open"
  /\ cmdCount[c] < BurstLen + MaxBurstCmds
  /\ \E S \in {HandleCommand(ServerState, c, cmd)} : ServerBecomes(S)
  /\ lastCmd' = WordsOf(cmd)
  /\ UNCHANGED <<conn, enqCount, running, storeVars, parserVars, broadcastVars>>

\* the server after a burst of publishes
NextBurst ==
  \/ \E cmd \in BurstCommands : ClientCommand("s2", cmd)
  \/ FlushMessageBuffers
  \/ \E s \in Sockets, a \in 0..(maxQueueSize + 1) : MuxBatchTimer(s, a)
  \/ \E s \in Sockets, a \in 0..(maxQueueSize + 1) : MuxDrain(s, a)
  \/ \E c \in Clients : SocketClose(c)

(***************************************************************************)
(* Specifications                                                          *)
(***************************************************************************)
InitSpecStore == InitStore /\ InitIdleParser /\ InitMux /\ InitBroker

SpecStore == InitSpecStore /\ [][NextStore]_vars

InitSpecParser == InitParser /\ InitStore /\ InitMux /\ InitBroker

SpecParser == InitSpecParser /\ [][NextParser]_vars

InitSpecMux == InitMux /\ InitStore /\ InitIdleParser /\ InitBroker

SpecMux == InitSpecMux /\ [][NextMux]_vars

SpecBroadcast == InitSpecMux /\ [][NextBroadcast]_vars

\* _performHealthCheck: a slot without activity for longer than this is stale
staleThreshold == 300000
HealthTickMs == 150000
MaxHealthNow == 450000

\* the body of the loop of _performHealthCheck for one socket.  Date.now()
\* is never 0, so that `lastActivity || now` is lastActivity.
SweepSocket(m, s) ==
  IF m.connectionHealth[s] = NoEntry THEN m
  ELSE IF now - m.health[s].lastActivity > staleThreshold
  THEN UpdateConnectionHealth(m, s, "stale")
  ELSE IF m.health[s].status # "healthy" /\ m.connectionHealth[s] = 0
  THEN UpdateConnectionHealth(m, s, "healthy")
  ELSE m

RECURSIVE SweepEach(_, _)
SweepEach(m, socks) ==
  IF socks = <<>> THEN m
  ELSE Then(SweepSocket(m, Head(socks)), LAMBDA m1 : SweepEach(m1, Tail(socks)))

\* the setInterval callback of the constructor: _performHealthCheck
PerformHealthCheck ==
  /\ running
  /\ \E m \in {SweepEach(MuxState, SetToSeq(registered))} : MuxBecomes(m)
  /\ UNCHANGED <<conn, enqCount, notMuxVars>>

\* time passes while no TTL timer is pending
HealthTick ==
  /\ now < MaxHealthNow
  /\ timers = {}
  /\ now' = now + HealthTickMs
  /\ UNCHANGED <<store, expirations, timers, ret, written, armedSince, cancelledBySet,
                 notStoreVars>>

\* the multiplexer over the minutes in which the health sweep runs
NextHealth ==
  \/ \E s \in MuxSockets : MuxConnect(s)
  \/ \E s \in MuxSockets, line \in Lines, p \in Priorities, a \in {0, maxQueueSize + 1} :
       MuxEnqueueCall(s, line, p, a)
  \/ \E s \in MuxSockets : MuxBatchTimer(s, maxQueueSize + 1)
  \/ \E s \in MuxSockets : MuxDrain(s, maxQueueSize + 1)
  \/ \E s \in MuxSockets, a \in 0..maxQueueSize : MuxBatchTimerThrows(s, a)
  \/ \E s \in MuxSockets : MuxSocketClose(s)
  \/ PerformHealthCheck
  \/ HealthTick

SpecHealth == InitSpecMux /\ [][NextHealth]_vars

SpecFlush == InitSpecMux /\ [][NextFlush]_vars

SpecPayload == InitSpecMux /\ [][NextPayload]_vars

InitSpecServer == InitBroker /\ InitMux /\ InitStore /\ InitIdleParser

SpecServer == InitSpecServer /\ [][NextServer]_vars

InitSpecBroker == InitBroker /\ InitMux /\ InitIdleParser /\ InitStore

SpecBroker == InitSpecBroker /\ [][NextBroker]_vars

MaxSubscribeCalls == 3

\* PubSub.subscribe called with a priority by another part of the process
BrokerSubscribe(c, ch, priority) ==
  /\ running
  /\ conn[c] = "open"
  /\ TotalCommands < MaxSubscribeCalls
  /\ \E S \in {PsSubscribe([ServerState EXCEPT !.cmdCount[c] = @ + 1], c, ch, priority)} :
       ServerBecomes(S)
  /\ UNCHANGED <<conn, enqCount, running, notServerVars>>

\* PubSub.unsubscribe called by another part of the process
BrokerUnsubscribe(c, ch) ==
  /\ running
  /\ conn[c] = "open"
  /\ TotalCommands < MaxSubscribeCalls
  /\ \E S \in {PsUnsubscribe([ServerState EXCEPT !.cmdCount[c] = @ + 1], c, ch)} :
       ServerBecomes(S)
  /\ UNCHANGED <<conn, enqCount, running, notServerVars>>

\* the broker under callers of subscribe, unsubscribe and publish
NextPubSub ==
  \/ \E c \in Clients : ClientConnect(c)
  \/ \E c \in Clients, ch \in Channels, p \in SubscriberPriorities : BrokerSubscribe(c, ch, p)
  \/ \E c \in Clients, ch \in Channels : BrokerUnsubscribe(c, ch)
  \/ \E ch \in Channels, msg \in Messages, o \in PublishOptions : BrokerPublish(ch, msg, o)
  \/ FlushMessageBuffers
  \/ \E s \in Sockets : MuxBatchTimer(s, maxQueueSize + 1)

SpecPubSub == InitSpecBroker /\ [][NextPubSub]_vars

\* the periodic buffer flush is a setInterval and a batch flush a setTimeout:
\* the event loop runs each of them once it is due; a socket whose peer
\* reads emits 'drain'
FairSpecServer ==
  /\ SpecServer
  /\ WF_vars(FlushMessageBuffers)
  /\ \A s \in Sockets : WF_vars(MuxBatchTimer(s, maxQueueSize + 1))
  /\ \A s \in Sockets : WF_vars(MuxDrain(s, maxQueueSize + 1))

InitSpecBurst ==
  /\ InitStore /\ InitIdleParser
  /\ conn = [s \in Sockets |-> "open"]
  /\ enqCount = [s \in Sockets |-> 0]
  /\ running = TRUE
  /\ lastCmd = <<>>
  /\ pendingChunks = <<>>
  /\ lastBroadcast = [n |-> 0, successCount |-> 0, failureCount |-> 0, enqueued |-> 0,
                      calls |-> 0]
  /\ \E S \in {AfterBurst} : ServerIs(S)

SpecBurst == InitSpecBurst /\ [][NextBurst]_vars

(***************************************************************************)
(* What TCPServer.handleCommand reads from the store                       *)
(***************************************************************************)
RECURSIVE CmdExists(_, _)
\* EXISTS: one count per listed key whose get() is not null
CmdExists(m, list) ==
  IF list = <<>> THEN 0
  ELSE (IF StoreGet(m, Head(list)) # Null THEN 1 ELSE 0) + CmdExists(m, Tail(list))

\* TYPE
CmdType(m, k) == IF StoreGet(m, k) = Null THEN "none" ELSE "string"

\* a SCAN whose next cursor is the end index even at the end of the keys
CmdScanNeverZero(m, cursor, pattern, count) ==
  LET allKeys == StoreKeys(m, pattern)
      endIndex == Min(cursor + count, Len(allKeys))
  IN [cursor |-> endIndex, keys |-> SubSeq(allKeys, cursor + 1, endIndex)]

\* SCAN cursor MATCH pattern COUNT count: the next cursor and the slice of keys
CmdScan(m, cursor, pattern, count) ==
  LET allKeys == StoreKeys(m, pattern)
      endIndex == Min(cursor + count, Len(allKeys))
  IN [cursor |-> IF endIndex < Len(allKeys) THEN endIndex ELSE 0,
      keys |-> SubSeq(allKeys, cursor + 1, endIndex)]

\* DBSIZE
CmdDbsize(m) == Len(StoreKeys(m, "*"))

(***************************************************************************)
(* The key/value commands of TCPServer.handleCommand.  The arguments are   *)
(* the strings the parser hands over; Chars gives the characters of a      *)
(* string, the long texts of the error replies counting as one character.  *)
(***************************************************************************)
KvValues == {"v1", "+v"}

Chars(str) ==
  CASE str = "k1" -> <<"k", "1">>
    [] str = "k2" -> <<"k", "2">>
    [] str = "v1" -> <<"v", "1">>
    [] str = "v2" -> <<"v", "2">>
    [] str = "+v" -> <<"+", "v">>
    [] str = "OK" -> <<"O", "K">>
    [] OTHER -> <<str>>

\* Number(arg): the number, or NaN for a string that is no numeric literal
NumberOf(arg) ==
  CASE arg = "-1" -> [finite |-> TRUE, n |-> -1]
    [] arg = "0" -> [finite |-> TRUE, n |-> 0]
    [] arg = "1" -> [finite |-> TRUE, n |-> 1]
    [] OTHER -> [finite |-> FALSE, n |-> 0]

\* RESPFormatter.format
FormatReply(data, type) ==
  CASE type = "simple" -> SimpleString(data.v)
    [] type = "error" -> ErrorString(data.v)
    [] type = "integer" -> IntegerReply(data.v[1])
    [] type = "array" -> FormatArray(data.v)
    [] OTHER -> IF IsNullV(data) THEN NullBulk ELSE BulkString(data.v)

\* a send that formats every string it is given
SendAlwaysFormats(data, type) == FormatReply(data, type)

\* TCPClient.send: the response handed to mux.enqueue; a string that starts
\* with one of + - : $ * is taken to be formatted already
Send(data, type) ==
  IF data.t = "str" /\ data.v # <<>> /\ Head(data.v) \in {"+", "-", ":", "$", "*"}
  THEN data.v
  ELSE FormatReply(data, type)

\* client.send(data, type) on the connection c, as the reply to its next command
KvReply(c, data, type) ==
  \E r \in {MuxEnqueue(MuxState, c, Send(data, type), "normal",
                       [kind |-> "reply", who |-> c, ch |-> "-", n |-> cmdCount[c] + 1],
                       0)} : MuxBecomes(r.m)

RECURSIVE QuotedArgs(_)
\* args.map((arg) => `'${arg}'`).join(", ")
QuotedArgs(list) ==
  IF list = <<>> THEN <<>>
  ELSE <<"'", Head(list), "'">> \o (IF Len(list) > 1 THEN <<", ">> ELSE <<>>)
       \o QuotedArgs(Tail(list))

\* the text of the default case
UnknownCommand(args) ==
  <<"ERR unknown command '", args[1], "', with args beginning with: ">>
  \o QuotedArgs(SubSeq(args, 2, Min(Len(args), 4)))

RECURSIVE ScanOptions(_, _, _, _)
\* the loop of case "SCAN" over the MATCH and COUNT options from args[i] on
ScanOptions(args, i, pattern, count) ==
  IF i > Len(args) THEN [err |-> "", pattern |-> pattern, count |-> count]
  ELSE IF i + 1 > Len(args) THEN [err |-> "ERR syntax error", pattern |-> pattern, count |-> count]
  ELSE IF args[i] = "MATCH" THEN ScanOptions(args, i + 2, args[i + 1], count)
  ELSE IF args[i] = "COUNT"
  THEN LET countArg == ParseInt(Chars(args[i + 1])) IN
       IF countArg.nan \/ countArg.n <= 0
       THEN [err |-> "ERR value is not an integer or out of range",
             pattern |-> pattern, count |-> count]
       ELSE ScanOptions(args, i + 2, pattern, countArg.n)
  ELSE [err |-> "ERR syntax error", pattern |-> pattern, count |-> count]

\* case "SCAN": what it hands to client.send
ScanReply(m, args) ==
  LET cursor == ParseInt(Chars(args[2]))
      opts == ScanOptions(args, 3, "*", 10)
      r == CmdScan(m, cursor.n, opts.pattern, opts.count)
  IN IF Len(args) < 2 THEN [data |-> StrV(WrongArguments("SCAN")), type |-> "error"]
     ELSE IF cursor.nan \/ cursor.n < 0
     THEN [data |-> StrV(<<"ERR invalid cursor">>), type |-> "error"]
     ELSE IF opts.err # "" THEN [data |-> StrV(<<opts.err>>), type |-> "error"]
     ELSE [data |-> ArrV(<<StrV(Decimal(r.cursor)),
                           ArrV([i \in 1..Len(r.keys) |-> StrV(Chars(r.keys[i]))])>>),
           type |-> "array"]

\* the switch of handleCommand on a key/value command
HandleKvCommand(c, args) ==
  LET cmd == args[1]
      n == Len(args)
      list == SubSeq(args, 2, n)
  IN
  \/ /\ cmd = "SET" /\ n < 3
     /\ KvReply(c, StrV(WrongArguments("SET")), "error")
     /\ UNCHANGED storeVars
  \/ /\ cmd = "SET" /\ n >= 3
     /\ KvSet(args[2], args[3])
     /\ KvReply(c, StrV(Chars("OK")), "simple")
  \/ /\ cmd = "GET" /\ n # 2
     /\ KvReply(c, StrV(WrongArguments("GET")), "error")
     /\ UNCHANGED storeVars
  \/ /\ cmd = "GET" /\ n = 2
     /\ KvGet(args[2])
     /\ KvReply(c, IF StoreGet(store, args[2]) = Null THEN NullV
                   ELSE StrV(Chars(StoreGet(store, args[2]))), "bulk")
  \/ /\ cmd = "DEL" /\ n < 2
     /\ KvReply(c, StrV(WrongArguments("DEL")), "error")
     /\ UNCHANGED storeVars
  \/ /\ cmd = "DEL" /\ n >= 2
     /\ KvDel(list)
     /\ KvReply(c, IntV(DelFold(store, expirations, timers, list, 0).removed), "integer")
  \/ /\ cmd = "EXISTS" /\ n < 2
     /\ KvReply(c, StrV(WrongArguments("EXISTS")), "error")
     /\ UNCHANGED storeVars
  \/ /\ cmd = "EXISTS" /\ n >= 2
     /\ KvGet(args[n])
     /\ KvReply(c, IntV(CmdExists(store, list)), "integer")
  \/ /\ cmd = "TTL" /\ n # 2
     /\ KvReply(c, StrV(WrongArguments("TTL")), "error")
     /\ UNCHANGED storeVars
  \/ /\ cmd = "TTL" /\ n = 2
     /\ KvTtl(args[2])
     /\ KvReply(c, IntV(StoreTtl(store, expirations, now, args[2])), "integer")
  \/ /\ cmd = "EXPIRE" /\ n # 3
     /\ KvReply(c, StrV(WrongArguments("EXPIRE")), "error")
     /\ UNCHANGED storeVars
  \/ /\ cmd = "EXPIRE" /\ n = 3
     /\ ~NumberOf(args[3]).finite \/ NumberOf(args[3]).n < 0
     /\ KvReply(c, StrV(<<"ERR value is not an integer or out of range">>), "error")
     /\ UNCHANGED storeVars
  \/ /\ cmd = "EXPIRE" /\ n = 3
     /\ NumberOf(args[3]).finite /\ NumberOf(args[3]).n >= 0
     /\ KvExpire(args[2], NumberOf(args[3]).n)
     /\ KvReply(c, IntV(IF MapHas(store, args[2]) THEN 1 ELSE 0), "integer")
  \/ /\ cmd = "SCAN"
     /\ KvReply(c, ScanReply(store, args).data, ScanReply(store, args).type)
     /\ UNCHANGED storeVars
  \/ /\ cmd \notin {"SET", "GET", "DEL", "EXISTS", "TTL", "EXPIRE", "SCAN"}
     /\ KvReply(c, StrV(UnknownCommand(args)), "error")
     /\ UNCHANGED storeVars

\* the commands the model sends: every key/value command with its arity, too
\* few and too many arguments, and PERSIST, which the switch has no case for
KvKeyLists == {<<"k1">>, <<"k1", "k2">>, <<"k1", "k1">>}
ScanCommands ==
  {<<"SCAN", "0">>, <<"SCAN", "0", "COUNT", "1">>, <<"SCAN", "1", "COUNT", "1">>,
   <<"SCAN", "0", "MATCH", "k2">>}
KvCommands ==
  {<<"SET", k, v>> : k \in Keys, v \in KvValues}
  \cup {<<"SET", "k1">>, <<"SET", "k1", "v1", "v1">>}
  \cup {<<"GET", k>> : k \in Keys} \cup {<<"GET">>}
  \cup {<<"DEL">> \o l : l \in KvKeyLists} \cup {<<"DEL">>}
  \cup {<<"EXISTS", "k1", "k2">>, <<"EXISTS">>}
  \cup {<<"TTL", k>> : k \in Keys} \cup {<<"TTL">>}
  \cup {<<"EXPIRE", "k1", sec>> : sec \in {"-1", "0", "1", "x"}}
  \cup {<<"EXPIRE", "k2", "1">>, <<"EXPIRE", "k1">>}
  \cup {<<"PERSIST", "k1">>}
  \cup ScanCommands

\* TCPClient._onData with a chunk that holds one key/value command
KvClientCommand(c, args) ==
  /\ running
  /\ conn[c] = "open"
  /\ TotalCommands < MaxKvCmds
  /\ cmdCount' = [cmdCount EXCEPT ![c] = @ + 1]
  /\ lastCmd' = args
  /\ HandleKvCommand(c, args)
  /\ UNCHANGED <<conn, enqCount, parserVars, subscribed, channels, subscriberGroups,
                 subscriptionPriorities, messageBuffer, pubLog, running,
                 broadcastVars>>

\* one connection sends key/value commands while time passes, the TTL timers
\* fire and the batch timer of its slot flushes the replies
NextKv ==
  \/ ClientConnect("s1")
  \/ \E args \in KvCommands : KvClientCommand("s1", args)
  \/ \E x \in timers : TimerFire(x)
  \/ Tick
  \/ MuxBatchTimer("s1", maxQueueSize + 1)

InitSpecKv == InitStore /\ InitMux /\ InitBroker /\ InitIdleParser

SpecKv == InitSpecKv /\ [][NextKv]_vars

(***************************************************************************)
(* Claims about the store                                                  *)
(***************************************************************************)
\* C1: after SET k v, GET k returns v until a later SET k, a DEL containing
\* k, or the firing of a timer armed for k by an EXPIRE issued after that
\* SET; nothing else (commands on other keys, timers of other keys, the
\* clock) changes the value read.
KVRoundTrip ==
  \A k \in Keys : written[k] # Null => StoreGet(store, k) = written[k]

\* the timer of k2 has fired and the clock has advanced while the value
\* written to k1 is still the one read
KVRoundTripWitness ==
  /\ ret.op = "timer" /\ ret.key = "k2"
  /\ now > 0
  /\ written["k1"] = "v2"
  /\ StoreGet(store, "k1") = "v2"

\* the TTL deadline of k, recorded by EXPIRE, is at or before the current time
DeadlinePassed(k) ==
  HasExpiration(expirations, k) /\ expirations[k].expireAt <= now

\* C2: a key whose TTL deadline is at or before the current time is not
\* observable: GET returns null, EXISTS does not count it, KEYS and SCAN do
\* not list it and TYPE returns none, even before the timer callback has run.
ExpiredNotObservable ==
  \A k \in Keys : DeadlinePassed(k) =>
    /\ StoreGet(store, k) = Null
    /\ CmdExists(store, <<k>>) = 0
    /\ k \notin Range(StoreKeys(store, "*"))
    /\ k \notin Range(CmdScan(store, 0, "*", 10).keys)
    /\ CmdType(store, k) = "none"

\* C3: a timer armed by EXPIRE k is cancelled by any later SET k, DEL k or
\* EXPIRE k and never fires afterwards: every pending timer is the one the
\* expirations map records for its key and was armed after the key's last
\* SET, and right after SET k no timer is pending for k and TTL k is -1.
CancelledTimersNeverFire ==
  /\ \A x \in timers :
        /\ HasExpiration(expirations, x.key)
        /\ expirations[x.key].handle = x.handle
        /\ x.handle \in armedSince[x.key]
  /\ ret.op = "set" =>
        /\ \A x \in timers : x.key # ret.key
        /\ StoreTtl(store, expirations, now, ret.key) = -1

\* k1 was written by a SET that cancelled the timer of an earlier EXPIRE;
\* the clock has reached its end and k1 is still there, without TTL
CancelledTimersNeverFireWitness ==
  /\ cancelledBySet["k1"]
  /\ now = MaxNow
  /\ written["k1"] = "v1"
  /\ StoreGet(store, "k1") = "v1"
  /\ StoreTtl(store, expirations, now, "k1") = -1

(***************************************************************************)
(* Claims about the connections, the broker and the multiplexer            *)
(***************************************************************************)
\* the command numbers of the replies written to a connection's socket
ReplyNumbers(c) ==
  LET replies == SelectSeq(wire[c], LAMBDA w : w.tag.kind = "reply")
  IN [i \in 1..Len(replies) |-> replies[i].tag.n]

\* C5: on every connection the replies written to the socket are replies to
\* that connection's commands and appear in the order of the commands,
\* whatever batch timers, drain events and other connections did in between.
RepliesInCommandOrder ==
  \A c \in Clients :
    /\ \A i \in 1..Len(wire[c]) : wire[c][i].tag.kind = "reply" => wire[c][i].tag.who = c
    /\ \A i, j \in 1..Len(ReplyNumbers(c)) : i < j => ReplyNumbers(c)[i] <= ReplyNumbers(c)[j]

\* two pipelined commands of s1 were answered across a refused write and a
\* drain event while s2 was served too
RepliesInCommandOrderWitness ==
  /\ refusals["s1"] > 0
  /\ ~needDrain["s1"]
  /\ \E i, j \in 1..Len(ReplyNumbers("s1")) : ReplyNumbers("s1")[i] < ReplyNumbers("s1")[j]
  /\ wire["s2"] # <<>>

\* C6: for every open connection c and channel ch the broker's set for ch
\* holds c exactly when c's subscribed set holds ch, and no channel of the
\* broker holds a closed connection.
SubscriptionSymmetry ==
  \A c \in Clients :
    /\ conn[c] = "open" =>
         \A ch \in Channels :
           c \in ChannelSet(ServerState, ch) <=> ch \in Range(subscribed[c])
    /\ conn[c] = "closed" => \A ch \in Channels : c \notin ChannelSet(ServerState, ch)

\* s1 closed while subscribed to the channel that s2 is still subscribed to
SubscriptionSymmetryWitness ==
  /\ conn["s1"] = "closed"
  /\ "a" \in Range(subscribed["s1"])
  /\ conn["s2"] = "open"
  /\ ChannelSet(ServerState, "a") = {"s2"}

\* publish number n is owed to s: another connection published it with PUBLISH
\* while s was subscribed to the channel
Owed(n, s) ==
  /\ n <= Len(pubLog)
  /\ pubLog[n].who \in Clients \ {s}
  /\ s \in pubLog[n].targets

Delivered(n, s) ==
  \E i \in 1..Len(wire[s]) : wire[s][i].tag.kind = "pub" /\ wire[s][i].tag.n = n

\* s left the channel or the connection, or its socket refused a write
Excused(n, s) ==
  \/ conn[s] # "open"
  \/ n <= Len(pubLog) /\ pubLog[n].ch \notin Range(subscribed[s])
  \/ refusals[s] > 0
  \/ Len(wire[s]) >= MaxWire

\* C7: a message published with PUBLISH while A is subscribed is eventually
\* written to A's socket, unless A unsubscribes, disconnects or stops
\* accepting writes; and the server keeps running.
PubSubDelivery ==
  /\ \A n \in 1..MaxPublishes, s \in Sockets :
       Owed(n, s) ~> (Delivered(n, s) \/ Excused(n, s))
  /\ []running

\* C8: every delivery written to a subscriber's socket is the RESP array of
\* the three bulk strings "message", the channel and the message.
DeliveryIsRespArray ==
  \A s \in Sockets : \A i \in 1..Len(wire[s]) :
    wire[s][i].tag.kind = "pub" =>
      wire[s][i].content =
        ArrayOfStrings(<<MessageWord, <<wire[s][i].tag.ch>>,
                         <<pubLog[wire[s][i].tag.n].message>>>>)

\* the numbers of the publishes of who on ch written to the socket of s
ReceivedNumbers(s, who, ch) ==
  LET got == SelectSeq(wire[s], LAMBDA w : w.tag.kind = "pub" /\ w.tag.who = who /\ w.tag.ch = ch)
  IN [i \in 1..Len(got) |-> got[i].tag.n]

\* the numbers of the publishes of who on ch made while s was subscribed
PublishedNumbers(s, who, ch) ==
  LET idx == SelectSeq([i \in 1..Len(pubLog) |-> i],
                       LAMBDA i : pubLog[i].who = who /\ pubLog[i].ch = ch /\ s \in pubLog[i].targets)
  IN idx

IsPrefix(a, b) == Len(a) <= Len(b) /\ a = SubSeq(b, 1, Len(a))

\* C9: what a subscriber's socket was handed of one publisher's messages on
\* one channel is a prefix of what that publisher published there: nothing
\* reordered, left out or repeated.
PublishOrderPrefix ==
  \A s \in Sockets, who \in Clients \cup {"api"}, ch \in Channels :
    IsPrefix(ReceivedNumbers(s, who, ch), PublishedNumbers(s, who, ch))

\* C10: the queues of a registered slot never hold more than maxQueueSize
\* messages in all.
QueuesBounded ==
  \A s \in registered : QueueTotal(queues[s]) <= maxQueueSize

\* what the step hands to socket.write() on the socket of s
NewWrites(s) == SubSeq(wire'[s], Len(wire[s]) + 1, Len(wire'[s]))

QueueRank(name) == CASE name = "priority" -> 1 [] name = "normal" -> 2 [] OTHER -> 3

\* the queues of a slot that _flush takes before the queue called name
HigherQueuesEmpty(q, name) ==
  /\ QueueRank(name) > 1 => q.priority = <<>>
  /\ QueueRank(name) > 2 => q.normal = <<>>

\* C11: the writes of one flush go priority, then normal, then low, first in
\* first out within a queue; a message of a lower queue is written only when
\* the higher queues of the slot are empty, so that a socket that accepts one
\* write gets the priority message when one is queued.
PriorityRespect ==
  [][\A s \in Sockets :
       LET new == NewWrites(s) IN
       /\ \A i, j \in 1..Len(new) :
            i < j => /\ QueueRank(new[i].queue) <= QueueRank(new[j].queue)
                     /\ new[i].queue = new[j].queue => new[i].tag.n <= new[j].tag.n
       /\ \A i \in 1..Len(new) : HigherQueuesEmpty(queues'[s], new[i].queue)
       /\ (new # <<>> /\ queues[s].priority # <<>>) => new[1].queue = "priority"]_vars

\* a low message was queued first, a priority message after it, and the socket
\* accepted one write: the priority message, with the low one refused behind it
PriorityRespectWitness ==
  \E s \in Sockets :
    /\ Len(wire[s]) = 2
    /\ wire[s][1].queue = "priority" /\ wire[s][1].ok /\ wire[s][1].tag.n = 2
    /\ wire[s][2].queue = "low" /\ ~wire[s][2].ok /\ wire[s][2].tag.n = 1
    /\ Len(queues[s].low) = 1

\* C12: while a socket owes its 'drain' event after write() returned false,
\* only the 'drain' handler writes to it.
NoWriteBeforeDrain ==
  [][\A s \in Sockets :
       (needDrain[s] /\ NewWrites(s) # <<>>) =>
          \E a \in 0..(maxQueueSize + 1) : MuxDrain(s, a)]_vars

\* the reply the last command of s1 was answered with, as queued for its socket
LastReply == queues["s1"].normal[Len(queues["s1"].normal)].content

\* the step dispatches the key/value command args of s1; the formulas about
\* such steps are subscripted with cmdCount, which every such step changes
KvStep(args) == cmdCount'["s1"] = cmdCount["s1"] + 1 /\ lastCmd' = args

\* C13: the reply to GET k is the bulk string of the stored value, whatever
\* its first character, and the null bulk for an absent key.
GetRepliesBulk ==
  [][\A k \in Keys :
       KvStep(<<"GET", k>>) =>
         LastReply' = IF MapHas(store, k) THEN BulkString(Chars(MapGet(store, k)))
                      ELSE NullBulk]_cmdCount

\* the arities of the dispatcher table
ArityListed(args) ==
  CASE args[1] \in {"SET", "EXPIRE"} -> Len(args) = 3
    [] args[1] \in {"GET", "TTL"} -> Len(args) = 2
    [] args[1] \in {"DEL", "EXISTS"} -> Len(args) >= 2
    [] OTHER -> TRUE

\* C14: a command sent with an argument count outside its listed arity is
\* answered with a RESP error and leaves the store, the TTL timers and the
\* broker's membership and buffers as they were.
WrongArityNoMutation ==
  [][\A args \in KvCommands :
       (~ArityListed(args) /\ KvStep(args)) =>
          /\ Head(LastReply') = "-"
          /\ UNCHANGED <<store, expirations, timers, subscribed, channels,
                         subscriberGroups, messageBuffer>>]_cmdCount

TimersOf(t, ks) == {x \in t : x.key \in ks}

\* C16: DEL replies the number of distinct listed keys that were present,
\* removes each of them with its TTL timer, leaves the other keys and timers
\* alone, and EXISTS on the same keys then counts 0.
DelCountsExactly ==
  [][\A l \in KvKeyLists :
       KvStep(<<"DEL">> \o l) =>
         /\ LastReply' = IntegerReply(Cardinality({k \in Range(l) : MapHas(store, k)}))
         /\ \A k \in Range(l) : ~MapHas(store', k) /\ ~HasExpiration(expirations', k)
         /\ TimersOf(timers', Range(l)) = {}
         /\ \A k \in Keys \ Range(l) :
              StoreGet(store', k) = StoreGet(store, k) /\ expirations'[k] = expirations[k]
         /\ TimersOf(timers', Keys \ Range(l)) = TimersOf(timers, Keys \ Range(l))
         /\ CmdExists(store', l) = 0]_cmdCount

\* DEL k1 k1 on a present k1 with a pending TTL timer was answered 1 and the
\* timer is gone
DelCountsExactlyWitness ==
  /\ lastCmd = <<"DEL", "k1", "k1">>
  /\ queues["s1"].normal # <<>>
  /\ LastReply = IntegerReply(1)
  /\ armedSince["k1"] # {}
  /\ timers = {}

\* C17: EXPIRE with finite seconds on an absent key replies 0 and changes
\* neither the store nor the pending timers, and the key's TTL stays -2; on a
\* present key it replies 1 and leaves exactly one pending timer for the key.
ExpireFrame ==
  [][\A k \in Keys, sec \in {"-1", "0", "1"} :
       KvStep(<<"EXPIRE", k, sec>>) =>
         IF ~MapHas(store, k)
         THEN /\ LastReply' = IntegerReply(0)
              /\ UNCHANGED <<store, expirations, timers>>
              /\ StoreTtl(store', expirations', now', k) = -2
         ELSE /\ LastReply' = IntegerReply(1)
              /\ Cardinality(TimersOf(timers', {k})) = 1]_cmdCount

\* C18: with no SET or EXPIRE of the key in the step, the TTL of a key that
\* has one does not grow, it is the ceiling of the remaining seconds and not
\* negative while the key is present, and an absent key stays absent (-2).
TtlMonotone ==
  [][\A k \in Keys :
       LET before == StoreTtl(store, expirations, now, k)
           after == StoreTtl(store', expirations', now', k)
           remaining == expirations'[k].expireAt - now'
           command == MapHas(store', k) /\ expirations'[k] # expirations[k]
       IN /\ (before = -2 /\ ~MapHas(store', k)) => after = -2
          /\ (MapHas(store, k) /\ HasExpiration(expirations, k) /\ ~command) =>
               /\ after <= before
               /\ MapHas(store', k) =>
                    /\ after >= 0
                    /\ after * 1000 >= remaining
                    /\ (after - 1) * 1000 < Max(1, remaining)]_<<store, expirations, now>>

\* a TTL call returned 0 for a key that is still present past its deadline of
\* one second
TtlMonotoneWitness ==
  /\ ret.op = "ttl"
  /\ ret.val = 0
  /\ MapHas(store, ret.key)
  /\ expirations[ret.key].expireAt = 1000
  /\ now >= 1000

\* C19: PERSIST on a present key with a TTL replies 1, cancels the pending
\* timer and leaves the TTL at -1; otherwise it replies 0 and changes nothing.
PersistClearsTtl ==
  [][\A k \in Keys :
       KvStep(<<"PERSIST", k>>) =>
         IF MapHas(store, k) /\ HasExpiration(expirations, k)
         THEN /\ LastReply' = IntegerReply(1)
              /\ TimersOf(timers', {k}) = {}
              /\ StoreTtl(store', expirations', now', k) = -1
         ELSE /\ LastReply' = IntegerReply(0)
              /\ UNCHANGED <<store, expirations, timers>>]_cmdCount

\* C20: EXPIRE with negative seconds on a present key is EXPIRE with 0: it
\* replies 1 and arms a timer that is due at once.
NegativeExpireIsZero ==
  [][\A k \in Keys :
       (KvStep(<<"EXPIRE", k, "-1">>) /\ MapHas(store, k)) =>
          /\ LastReply' = IntegerReply(1)
          /\ \E x \in timers' : x.key = k /\ x.due = now]_cmdCount

\* C21: the reply to SCAN is an array of two elements, the next cursor as a
\* bulk string and the array of the returned keys, one bulk string per key.
ScanRepliesNestedArray ==
  [][\A args \in ScanCommands :
       KvStep(args) =>
         LET opts == ScanOptions(args, 3, "*", 10)
             r == CmdScan(store, ParseInt(Chars(args[2])).n, opts.pattern, opts.count)
         IN LastReply' = <<"*", "2", CR, LF>> \o BulkString(Decimal(r.cursor))
                         \o ArrayOfStrings([i \in 1..Len(r.keys) |-> Chars(r.keys[i])])]_cmdCount

RECURSIVE ScanFrom(_, _, _, _, _)
\* SCAN re-issued with each returned cursor, at most fuel times, on a store
\* that does not change: whether cursor 0 came back, the slices in order, and
\* whether each slice held at most count keys
ScanFrom(m, pattern, count, cursor, fuel) ==
  IF fuel = 0 THEN [done |-> FALSE, keys |-> <<>>, bounded |-> TRUE]
  ELSE LET r == CmdScan(m, cursor, pattern, count) IN
       IF r.cursor = 0
       THEN [done |-> TRUE, keys |-> r.keys, bounded |-> Len(r.keys) <= count]
       ELSE LET rest == ScanFrom(m, pattern, count, r.cursor, fuel - 1) IN
            [done |-> rest.done, keys |-> r.keys \o rest.keys,
             bounded |-> Len(r.keys) <= count /\ rest.bounded]

RepliesQueued(q, n) ==
  Cardinality({i \in 1..Len(q.normal) : q.normal[i].tag.kind = "reply" /\ q.normal[i].tag.n = n})

\* the step in which s2's command cmd is handled
BurstStep(cmd) == cmdCount'["s2"] = cmdCount["s2"] + 1 /\ lastCmd' = WordsOf(cmd)

\* PUBLISH to ch raises in the broker: the full buffer is flushed at once
PublishRaises(ch) == PsPublish(ServerState, "s2", ch, "m", NoOptions).threw

\* C23: an exception raised while a command is handled becomes exactly one
\* RESP error reply to the issuing connection, the server keeps running, and
\* a later PING on the same connection is answered with PONG.
ErrorsBecomeReplies ==
  [][\A cmd \in BurstCommands :
       BurstStep(cmd) =>
         /\ running'
         /\ RepliesQueued(queues'["s2"], cmdCount'["s2"]) = 1
         /\ LET q == queues'["s2"].normal IN
            /\ (cmd.name = "PUBLISH" /\ PublishRaises(cmd.args[1]))
                 => Head(q[Len(q)].content) = "-"
            /\ cmd.name = "PING" => q[Len(q)].content = SimpleString(PongWord)]_cmdCount

\* a PUBLISH of s2 was answered with an error, and the PING after it with PONG
ErrorsBecomeRepliesWitness ==
  /\ lastCmd = <<"PING">>
  /\ Len(queues["s2"].normal) = 2
  /\ Head(queues["s2"].normal[1].content) = "-"
  /\ queues["s2"].normal[1].tag.n = cmdCount["s2"] - 1
  /\ queues["s2"].normal[2].content = SimpleString(PongWord)
  /\ queues["s2"].normal[2].tag.n = cmdCount["s2"]

\* C30: a PUBLISH on the buffered strategy is answered with the number of
\* connections subscribed to the channel at that moment, and on a channel
\* without subscribers it is answered with 0 and leaves the broker as it was.
PublishCountsSubscribers ==
  [][\A cmd \in BurstCommands :
       (cmd.name = "PUBLISH" /\ BurstStep(cmd)) =>
         LET n == Cardinality(ChannelSet(ServerState, cmd.args[1]))
             q == queues'["s2"].normal
         IN /\ q[Len(q)].content = IntegerReply(n)
            /\ n = 0 => UNCHANGED <<channels, subscriberGroups, subscriptionPriorities,
                                    messageBuffer, pubLog>>]_cmdCount

(***************************************************************************)
(* Claims about the timers and the flush of a slot                         *)
(***************************************************************************)
\* no channel has a buffered message
BuffersEmpty(mb) == \A i \in 1..Len(mb) : mb[i].val = <<>>

\* C24: no timer callback lets an exception escape: the process keeps
\* running, and a run of the buffer flush timer leaves no channel's buffer
\* unflushed.
TimerErrorsSwallowed ==
  [][/\ running'
     /\ (pubLog' = pubLog /\ messageBuffer' # messageBuffer) => BuffersEmpty(messageBuffer')
    ]_<<running, messageBuffer>>

\* C25: no slot stays marked as flushing once _flush has returned, whether
\* it wrote everything, stopped at a refused write or caught an exception
\* of write(); so a flush never finds the flag of its slot set by another.
NoSlotStaysFlushing == flushing = {}

\* flushes of s1 have ended in each of the three ways
NoSlotStaysFlushingWitness ==
  /\ throws["s1"] > 0
  /\ refusals["s1"] > 0
  /\ \E i \in 1..Len(wire["s1"]) : wire["s1"][i].ok

\* C26: a flush in which write() raised leaves the socket without a slot: no
\* queues, no batch timer, no metrics and no health entry.
WriteErrorTearsDown ==
  [][\A s \in MuxSockets :
       throws'[s] > throws[s] =>
         /\ s \notin registered'
         /\ queues'[s] = EmptyQueues
         /\ s \notin batchTimers'
         /\ socketMetrics'[s] = NoEntry
         /\ connectionHealth'[s] = NoEntry]_throws

\* the queues the claimed policy leaves before the incoming message is appended
ClaimedAfterPolicy(q, p) ==
  IF Len(q.low) > 0 THEN [q EXCEPT !.low = Tail(@)]
  ELSE IF p # "low" /\ Len(q.normal) > 2 * Len(q.priority) THEN [q EXCEPT !.normal = Tail(@)]
  ELSE q

\* enqueue once the queue-size check is done, from the queues it has left
EnqueueOnto(q, s, line, p, accept) ==
  LET tag == [kind |-> "call", who |-> s, ch |-> "-", n |-> enqCount[s] + 1]
      m == [MuxState EXCEPT !.queues[s] = [q EXCEPT ![p] = PushAll(@, QueuedMessages(line, tag))]]
  IN IF p = "priority" THEN MuxFlush(m, s, accept) ELSE MuxScheduleBatchFlush(m, s)

\* C27: on a slot whose queues hold maxQueueSize messages or more, enqueue
\* drops the oldest low message when there is one, whatever the incoming
\* priority; with no low message it rejects an incoming low message, and
\* otherwise drops the oldest normal message when the normal queue is longer
\* than twice the priority queue; then it appends the incoming message.
QueueFullPolicy ==
  [][\A s \in MuxSockets, line \in Lines, p \in Priorities, a \in 0..(maxQueueSize + 1) :
       (/\ MuxEnqueueCall(s, line, p, a)
        /\ s \in registered
        /\ QueueTotal(queues[s]) >= maxQueueSize) =>
         IF Len(queues[s].low) = 0 /\ p = "low"
         THEN queues'[s] = queues[s]
         ELSE queues'[s] = EnqueueOnto(ClaimedAfterPolicy(queues[s], p), s, line, p, a).queues[s]
    ]_vars

(***************************************************************************)
(* Claims about large payloads                                             *)
(***************************************************************************)
\* C28: the chunks of one payload reach the socket together: no other
\* message is written between the first chunk and the last, and a chunk is
\* never written or queued without the chunk before it, nor written and
\* left without the chunk after it.
ChunksContiguous ==
  \A s \in MuxSockets :
    LET w == wire[s]
        queued == FlushOrder(queues[s])
        Written(t, k) == \E i \in 1..Len(w) : w[i].tag = t /\ w[i].part = k
        Queued(t, k) == \E i \in 1..Len(queued) : queued[i].msg.tag = t /\ queued[i].msg.part = k
        Last(i) == w[i].part = w[i].parts
    IN /\ \A i \in 1..Len(w) :
            w[i].parts > 1 =>
              /\ w[i].part > 1 => Written(w[i].tag, w[i].part - 1)
              /\ ~Last(i) => Written(w[i].tag, w[i].part + 1) \/ Queued(w[i].tag, w[i].part + 1)
              /\ \A j \in (i + 1)..Len(w) :
                   (/\ w[i].part = 1
                    /\ w[j].tag = w[i].tag
                    /\ \A k \in (i + 1)..j : (w[k].tag = w[i].tag /\ Last(k)) => k = j)
                   => \A k \in (i + 1)..j : w[k].tag = w[i].tag
       /\ \A i \in 1..Len(queued) :
            queued[i].msg.part > 1 =>
              \/ Written(queued[i].msg.tag, queued[i].msg.part - 1)
              \/ Queued(queued[i].msg.tag, queued[i].msg.part - 1)

\* the contents written, or still queued, for the payload numbered n
PiecesOf(w, q, n) ==
  LET done == SelectSeq(w, LAMBDA e : e.ok /\ e.tag.n = n)
      left == SelectSeq(q, LAMBDA msg : msg.tag.n = n)
  IN [i \in 1..Len(done) |-> done[i].content]
     \o [i \in 1..Len(left) |-> WrittenContent(left[i])]

RECURSIVE Concat(_)
Concat(seqs) == IF seqs = <<>> THEN <<>> ELSE Head(seqs) \o Concat(Tail(seqs))

\* C29: what the socket is given for a payload that enqueue accepted is the
\* payload, with a line terminator when it had none, whatever its size.
PayloadIntegrity ==
  [][\A s \in MuxSockets, line \in PayloadLines, p \in Priorities, a \in 0..(maxQueueSize + 1) :
       (/\ MuxEnqueueCall(s, line, p, a)
        /\ s \in registered
        /\ ~RejectsIncoming(queues[s], p)) =>
         Concat(PiecesOf(wire'[s], queues'[s][p], enqCount'[s])) = WithNewline(line)]_vars

\* C31: the counts broadcast returns account for every socket of its array:
\* successCount + failureCount is the length of the array, and successCount
\* is the number of sockets whose enqueue was accepted
BroadcastCountsEverySocket ==
  /\ lastBroadcast.successCount + lastBroadcast.failureCount = lastBroadcast.n
  /\ lastBroadcast.n <= syncBroadcastLimit =>
       lastBroadcast.successCount = lastBroadcast.enqueued

\* the same for the arrays that take the synchronous path only
SmallBroadcastCountsEverySocket ==
  lastBroadcast.n <= syncBroadcastLimit =>
    /\ lastBroadcast.successCount + lastBroadcast.failureCount = lastBroadcast.n
    /\ lastBroadcast.successCount = lastBroadcast.enqueued

\* the messages buffered for a channel, and the tags of the messages of a slot
BufferOf(ch) == IF MapHas(messageBuffer, ch) THEN MapGet(messageBuffer, ch) ELSE <<>>
QueuedTags(q) ==
  UNION {{q[name][i].tag : i \in 1..Len(q[name])} : name \in Priorities}

\* C32: a failure of one subscriber's delivery stays with that subscriber: a
\* run of the buffer flush raises nothing, and it leaves every buffered
\* message of a channel in the slot of each subscriber of the channel that
\* is registered, open and has room for the buffered messages.
FanOutFailuresIsolated ==
  [][FlushMessageBuffers =>
       /\ running'
       /\ \A ch \in Channels : \A c \in ChannelSet(ServerState, ch) :
            ( /\ c \in registered
              /\ ~Destroyed(c)
              /\ QueueTotal(queues[c])
                   + SumOver([x \in Channels |-> Len(BufferOf(x))], Channels) <= maxQueueSize )
            => \A i \in 1..Len(BufferOf(ch)) : BufferOf(ch)[i].tag \in QueuedTags(queues'[c])
    ]_vars

\* C33: every accepted message is eventually flushed: whenever a slot holds
\* queued messages, a batch timer of the slot is pending or its socket's
\* 'drain' event is awaited, so that a flush that writes them is still to come.
QueuedSlotsAwaitFlush ==
  \A s \in Sockets : QueueTotal(queues[s]) > 0 => s \in batchTimers \/ needDrain[s]

(***************************************************************************)
(* Claims about the health sweep                                           *)
(***************************************************************************)
HealthLabels == {"healthy", "degraded", "overloaded", "unhealthy", "stale"}

\* C34: the health sweep labels as stale every slot that has had no
\* activity for more than five minutes, and the label of a slot is always
\* one of healthy, degraded, overloaded, unhealthy and stale.
StaleSlotsLabelled ==
  [][PerformHealthCheck =>
       \A s \in registered :
         /\ health'[s].status \in HealthLabels
         /\ now - health[s].lastActivity > staleThreshold => health'[s].status = "stale"
    ]_vars

\* the label of a slot is one of the five
HealthLabelKnown == \A s \in registered : health[s].status \in HealthLabels

(***************************************************************************)
(* Claims about replies and deliveries in the slots                        *)
(***************************************************************************)
\* the tags of the command replies queued in a slot, and of what was written
QueuedReplyTags(q) == {t \in QueuedTags(q) : t.kind = "reply"}
WrittenTags(w) == {w[i].tag : i \in 1..Len(w)}

\* C35: the queue-full policy never removes or rejects a command reply: a
\* reply queued for a connection stays queued until it is written, unless
\* the connection's slot is torn down.
RepliesNeverDropped ==
  [][\A c \in Clients :
       c \in registered' =>
         QueuedReplyTags(queues[c]) \subseteq
           QueuedReplyTags(queues'[c]) \cup WrittenTags(wire'[c])
    ]_<<queues, wire>>

(***************************************************************************)
(* Claims about the broker's subscriptions                                 *)
(***************************************************************************)
\* the priority groups of channel ch that hold connection c
GroupsOf(groups, c, ch) ==
  IF MapHas(groups, ch) THEN {p \in SubscriberPriorities : c \in MapGet(groups, ch)[p]}
  ELSE {}

\* C36: subscribe and unsubscribe are idempotent: subscribing a subscribed
\* connection, at the same or at another priority, leaves the subscriber
\* sets as they were and the connection in exactly one priority group;
\* unsubscribing a connection that is not subscribed changes nothing; and
\* unsubscribing the last subscriber removes the channel's subscriber set,
\* its priority groups and its message buffer.
SubscriptionsIdempotent ==
  [][\A c \in Clients, ch \in Channels :
       /\ \A p \in SubscriberPriorities :
            (BrokerSubscribe(c, ch, p) /\ c \in ChannelSet(ServerState, ch)) =>
              /\ channels' = channels
              /\ Cardinality(GroupsOf(subscriberGroups', c, ch)) = 1
       /\ (BrokerUnsubscribe(c, ch) /\ c \notin ChannelSet(ServerState, ch)) =>
            UNCHANGED <<channels, subscriberGroups, subscriptionPriorities, messageBuffer>>
       /\ (BrokerUnsubscribe(c, ch) /\ ChannelSet(ServerState, ch) = {c}) =>
            /\ ~MapHas(channels', ch)
            /\ ~MapHas(subscriberGroups', ch)
            /\ ~MapHas(messageBuffer', ch)
    ]_cmdCount

\* the same, without the count of the priority groups: a subscription at
\* the priority the connection subscribed with last changes nothing
SubscriptionsIdempotentButGroups ==
  [][\A c \in Clients, ch \in Channels :
       /\ \A p \in SubscriberPriorities :
            (BrokerSubscribe(c, ch, p) /\ c \in ChannelSet(ServerState, ch)) =>
              /\ channels' = channels
              /\ p \in GroupsOf(subscriberGroups', c, ch)
              /\ (MapHas(subscriptionPriorities[c], ch)
                  /\ MapGet(subscriptionPriorities[c], ch) = p) =>
                   UNCHANGED <<subscriberGroups, subscriptionPriorities, messageBuffer>>
       /\ (BrokerUnsubscribe(c, ch) /\ c \notin ChannelSet(ServerState, ch)) =>
            UNCHANGED <<channels, subscriberGroups, subscriptionPriorities, messageBuffer>>
       /\ (BrokerUnsubscribe(c, ch) /\ ChannelSet(ServerState, ch) = {c}) =>
            /\ ~MapHas(channels', ch)
            /\ ~MapHas(subscriberGroups', ch)
            /\ ~MapHas(messageBuffer', ch)
    ]_cmdCount

\* C37: no queued message is handed to socket.write more than once: a
\* message whose write returned false is not written again by a later flush.
NoMessageWrittenTwice ==
  \A s \in Sockets : \A i, j \in 1..Len(wire[s]) :
    (wire[s][i].tag = wire[s][j].tag /\ wire[s][i].part = wire[s][j].part) => i = j

\* C38: a subscriber's socket is handed only messages that were published
\* while the connection was subscribed to their channel.
OnlyWhileSubscribed ==
  \A s \in Sockets : \A i \in 1..Len(wire[s]) :
    wire[s][i].tag.kind = "pub" => s \in pubLog[wire[s][i].tag.n].targets

\* the slot of c holds a reply to the command c sent last
LastCommandAnswered(c) ==
  \E t \in QueuedReplyTags(queues'[c]) : t.who = c /\ t.n = cmdCount'[c]

\* C39: every command that is dispatched enqueues at least one reply to the
\* connection that sent it, an unknown command, one with the wrong number
\* of arguments and an UNSUBSCRIBE without channels by a connection that
\* has no subscriptions included.
EveryCommandAnswered ==
  [][\A c \in Clients : cmdCount'[c] = cmdCount[c] + 1 => LastCommandAnswered(c)]_cmdCount

\* the same for every command but the UNSUBSCRIBE without channels of a
\* connection that has no subscriptions
EveryOtherCommandAnswered ==
  [][\A c \in Clients :
       ( /\ cmdCount'[c] = cmdCount[c] + 1
         /\ ~(subscribed[c] = <<>>
              /\ ClientOnData(c, <<[name |-> "UNSUBSCRIBE", args |-> <<>>]>>)) )
       => LastCommandAnswered(c)]_cmdCount

(***************************************************************************)
(* Claims about the store's maps                                           *)
(***************************************************************************)
\* C40: every key of the expirations map is a key of the store map, every
\* pending TTL timer is the one recorded for a present key, and no key has
\* more than one pending timer.
ExpirationsWithinStore ==
  /\ \A k \in Keys : HasExpiration(expirations, k) => MapHas(store, k)
  /\ \A x \in timers : MapHas(store, x.key) /\ expirations[x.key].handle = x.handle
  /\ \A k \in Keys : Cardinality({x \in timers : x.key = k}) <= 1

\* a timer has fired and removed its key while the timer of another key,
\* armed a second time, is still pending
ExpirationsWithinStoreWitness ==
  /\ ret.op = "timer"
  /\ ~MapHas(store, ret.key)
  /\ \E x \in timers : x.key # ret.key /\ x.handle > 1 /\ HasExpiration(expirations, x.key)
====
